---- MODULE Spec2Model ----
(***************************************************************************)
(* Whispering Wilds: the engine's action / encounter / quest state machine. *)
(* Every engine operation is a pure function GameState -> ActionResult;    *)
(* it is modelled as an operator returning [state, logEntries], and the    *)
(* actions of the specification thread the current GameState through it.   *)
(* Math.random() is an input of the operations, given in hundredths.       *)
(***************************************************************************)
EXTENDS Integers, Sequences, FiniteSets, TLC

VARIABLES currentLocation, player, quests, flags, currentEncounter, gather,
          tradeUsage, logDeathLines

vars == <<currentLocation, player, quests, flags, currentEncounter, gather,
          tradeUsage, logDeathLines>>

----------------------------------------------------------------------------
(* Bounds of the model *)

\* Spec: resources gathered, conversations held and xp earned in one run
MaxGathered == 2
MaxSpoken == 0
MaxXp == 10
\* SpecCalm: resources gathered and conversations held in one run
MaxGatheredCalm == 5
MaxSpokenCalm == 0
\* SpecQuest: resources gathered and conversations held in one run
MaxGatheredQuest == 4
MaxSpokenQuest == 1
\* SpecChain: resources gathered and conversations held in one run
MaxGatheredChain == 4
MaxSpokenChain == 3
\* SpecRite: resources gathered and conversations held in one run
MaxGatheredRite == 4
MaxSpokenRite == 1
\* SpecSaga: every quest and every conversation of a run
MaxGatheredSaga == 5
MaxSpokenSaga == 5
\* SpecSaga: ore mined and words with the trader, which no quest asks for
MaxOreSaga == 0
MaxTraderSaga == 0

\* SpecLarder: resources gathered and conversations held in one run
MaxGatheredLarder == 6
MaxSpokenLarder == 1

\* SpecXp: the xp a player holds
MaxXpHeld == 110
\* SpecFight: the xp earned in one run of fights, nothing gathered or said
MaxXpFight == 100
\* samples of three successive Math.random() draws, each as floor(100 * r)
Rolls == {<<0, 70, 0>>, <<0, 0, 70>>, <<70, 0, 70>>}
\* a generator seeded so that every spawn roll misses
CalmRolls == {<<70, 99, 20>>}

----------------------------------------------------------------------------
(* Content tables *)

LocationIds ==
  {"sanctum", "gate", "wilds", "lake", "mine", "hermit_hut", "trader_post", "deep_wilds"}

locations ==
  [l \in LocationIds |->
    CASE l = "sanctum"     -> [biome |-> "sanctum", exits |-> {"gate"}]
      [] l = "gate"        -> [biome |-> "forest", exits |-> {"sanctum", "wilds"}]
      [] l = "wilds"       -> [biome |-> "forest",
                               exits |-> {"gate", "lake", "mine", "hermit_hut",
                                          "trader_post", "deep_wilds"}]
      [] l = "lake"        -> [biome |-> "lake", exits |-> {"wilds"}]
      [] l = "mine"        -> [biome |-> "mine", exits |-> {"wilds"}]
      [] l = "hermit_hut"  -> [biome |-> "camp", exits |-> {"wilds"}]
      [] l = "trader_post" -> [biome |-> "camp", exits |-> {"wilds"}]
      [] l = "deep_wilds"  -> [biome |-> "deep_forest", exits |-> {"wilds"}]]

\* Object.values(creatures), in declaration order
CreatureOrder == <<"wild_spirit", "lake_wisp", "mine_shade", "stray_beast">>

CreatureIds == {CreatureOrder[i] : i \in 1..Len(CreatureOrder)}

creatures ==
  [c \in CreatureIds |->
    CASE c = "wild_spirit" -> [hp |-> 8, attack |-> 3, defence |-> 1, biome |-> "forest"]
      [] c = "lake_wisp"   -> [hp |-> 6, attack |-> 2, defence |-> 1, biome |-> "lake"]
      [] c = "mine_shade"  -> [hp |-> 10, attack |-> 4, defence |-> 2, biome |-> "mine"]
      [] c = "stray_beast" -> [hp |-> 7, attack |-> 3, defence |-> 1, biome |-> "forest"]]

NpcIds == {"caretaker", "hermit", "ranger_trader"}

npcs ==
  [n \in NpcIds |->
    CASE n = "caretaker"     -> [location |-> "sanctum", introLines |-> 3]
      [] n = "hermit"        -> [location |-> "hermit_hut", introLines |-> 3]
      [] n = "ranger_trader" -> [location |-> "trader_post", introLines |-> 3]]

QuestIds == {"heal_the_grove", "echoes_at_the_lake", "hermits_glow", "hermit_fragment"}

\* QUESTS[id].steps, as the ordered list of step ids
QUESTS ==
  [q \in QuestIds |->
    CASE q = "heal_the_grove" ->
           <<"speak_to_caretaker", "gather_ingredients", "perform_ritual",
             "return_to_caretaker", "grove_healed">>
      [] q = "echoes_at_the_lake" ->
           <<"unlocked", "investigate_lake", "return_to_hermit", "completed">>
      [] q = "hermits_glow" ->
           <<"unlocked", "seek_glow", "found_glow", "commune_with_glow", "completed">>
      [] q = "hermit_fragment" ->
           <<"unlocked", "delivered", "completed">>]

TradeIds == {"herbs_for_tonic", "ore_for_tonic"}

RANGER_TRADES ==
  [t \in TradeIds |->
    CASE t = "herbs_for_tonic" ->
           [costs |-> <<[itemId |-> "forest_herb", quantity |-> 3]>>,
            rewards |-> <<[itemId |-> "healing_tonic", quantity |-> 1]>>]
      [] t = "ore_for_tonic" ->
           [costs |-> <<[itemId |-> "raw_ore", quantity |-> 2]>>,
            rewards |-> <<[itemId |-> "healing_tonic", quantity |-> 1]>>]]

BASE_TRADE_LIMITS == [t \in TradeIds |-> 3]

XP_THRESHOLDS == <<0, 10, 30, 60, 100>>

MAX_HERBS == 5
MAX_WATER == 3
MAX_ORE == 4
MAX_LUMINOUS == 2

----------------------------------------------------------------------------
(* Small helpers *)

Max(a, b) == IF a >= b THEN a ELSE b
Min(a, b) == IF a <= b THEN a ELSE b

\* a LogEntry, without its id and timestamp; `variant` is the index of the
\* text template that pick() chose (0 for a fixed text)
EntryV(type, text, variant) == [type |-> type, text |-> text, variant |-> variant]

Entry(type, text) == EntryV(type, text, 0)

\* an ActionResult
Result(s, entries) == [state |-> s, logEntries |-> entries]

\* pick(options) over n options: options[floor(random * n)]
pick(n, roll) == (roll * n) \div 100

\* currentEncounter: null / undefined
NoEncounter == [creatureId |-> "none", hp |-> 0, hasRepFlavourApplied |-> FALSE]

DeathText == "Your vision blurs and the Whispering Wilds close in. This run has ended."

----------------------------------------------------------------------------
(* engine/gameState.ts *)

createInitialState ==
  [currentLocation |-> "sanctum",
   player |-> [hp |-> 20, maxHp |-> 20, xp |-> 0, level |-> 1, inventory |-> <<>>],
   quests |-> <<[id |-> "heal_the_grove", step |-> "speak_to_caretaker",
                 status |-> "not_started"],
                [id |-> "echoes_at_the_lake", step |-> "unlocked",
                 status |-> "not_started"],
                [id |-> "hermits_glow", step |-> "unlocked",
                 status |-> "not_started"]>>,
   flags |-> [groveHealed |-> FALSE, lakeEchoesFound |-> FALSE,
              glowCommuneComplete |-> FALSE,
              npcMemory |-> [n \in NpcIds |-> 0],
              reputation |-> [forest |-> 0],
              runEnded |-> FALSE],
   currentEncounter |-> NoEncounter,
   gather |-> [wildsHerbs |-> 0, lakeWater |-> 0, mineOre |-> 0,
               luminousFragments |-> 0],
   tradeUsage |-> [t \in TradeIds |-> 0]]

----------------------------------------------------------------------------
(* engine/progression.ts *)

\* faulty variant: a threshold must be exceeded, not reached
RECURSIVE levelScan_exceeded(_, _)
levelScan_exceeded(xp, i) ==
  IF i < 1 THEN 1
  ELSE IF xp > XP_THRESHOLDS[i] THEN i
  ELSE levelScan_exceeded(xp, i - 1)

RECURSIVE levelScan(_, _)
levelScan(xp, i) ==
  IF i < 1 THEN 1
  ELSE IF xp >= XP_THRESHOLDS[i] THEN i
  ELSE levelScan(xp, i - 1)

getLevelForXp(xp) == levelScan(xp, Len(XP_THRESHOLDS))

\* the threshold of the next level; -1 stands for null
getNextLevelXp(level) ==
  LET index == level
  IN IF index < 0 \/ index >= Len(XP_THRESHOLDS) THEN -1
     ELSE XP_THRESHOLDS[index + 1]

\* faulty variant: a level-up is worth 5 maxHp however many levels it spans
applyXp_flatBonus(s, amount) ==
  LET newXp == Max(0, s.player.xp + amount)
      oldLevel == s.player.level
      newLevel == getLevelForXp(newXp)
      s1 == [s EXCEPT !.player.xp = newXp, !.player.level = newLevel]
  IN IF newLevel > oldLevel
     THEN LET newMaxHp == s.player.maxHp + 5
          IN [state |-> [s1 EXCEPT !.player.maxHp = newMaxHp, !.player.hp = newMaxHp],
              levelledUp |-> TRUE]
     ELSE [state |-> s1, levelledUp |-> FALSE]

\* faulty variant: a level-up restores hp to the new maximum without storing
\* that maximum
applyXp_hpOnly(s, amount) ==
  LET newXp == Max(0, s.player.xp + amount)
      oldLevel == s.player.level
      newLevel == getLevelForXp(newXp)
      s1 == [s EXCEPT !.player.xp = newXp, !.player.level = newLevel]
  IN IF newLevel > oldLevel
     THEN LET newMaxHp == s.player.maxHp + (newLevel - oldLevel) * 5
          IN [state |-> [s1 EXCEPT !.player.hp = newMaxHp], levelledUp |-> TRUE]
     ELSE [state |-> s1, levelledUp |-> FALSE]

\* faulty variant: the new level is used for the bonus but never stored
applyXp_staleLevel(s, amount) ==
  LET newXp == Max(0, s.player.xp + amount)
      oldLevel == s.player.level
      newLevel == getLevelForXp(newXp)
      s1 == [s EXCEPT !.player.xp = newXp]
  IN IF newLevel > oldLevel
     THEN LET newMaxHp == s.player.maxHp + (newLevel - oldLevel) * 5
          IN [state |-> [s1 EXCEPT !.player.maxHp = newMaxHp, !.player.hp = newMaxHp],
              levelledUp |-> TRUE]
     ELSE [state |-> s1, levelledUp |-> FALSE]

applyXp(s, amount) ==
  LET newXp == Max(0, s.player.xp + amount)
      oldLevel == s.player.level
      newLevel == getLevelForXp(newXp)
      s1 == [s EXCEPT !.player.xp = newXp, !.player.level = newLevel]
  IN IF newLevel > oldLevel
     THEN LET newMaxHp == s.player.maxHp + (newLevel - oldLevel) * 5
          IN [state |-> [s1 EXCEPT !.player.maxHp = newMaxHp, !.player.hp = newMaxHp],
              levelledUp |-> TRUE]
     ELSE [state |-> s1, levelledUp |-> FALSE]

----------------------------------------------------------------------------
(* Inventory helpers of engine/actions.ts *)

RECURSIVE countSeq(_, _)
countSeq(inv, itemId) ==
  IF inv = <<>> THEN 0
  ELSE (IF Head(inv).itemId = itemId THEN Head(inv).quantity ELSE 0)
       + countSeq(Tail(inv), itemId)

countItem(s, itemId) == countSeq(s.player.inventory, itemId)

\* faulty variant: the filter is missing, emptied entries stay
RECURSIVE removeSeq_keepEmpty(_, _, _)
removeSeq_keepEmpty(inv, itemId, remaining) ==
  IF inv = <<>> THEN <<>>
  ELSE LET item == Head(inv)
       IN IF item.itemId # itemId \/ remaining <= 0
          THEN <<item>> \o removeSeq_keepEmpty(Tail(inv), itemId, remaining)
          ELSE LET toRemove == Min(item.quantity, remaining)
               IN <<[item EXCEPT !.quantity = item.quantity - toRemove]>>
                  \o removeSeq_keepEmpty(Tail(inv), itemId, remaining - toRemove)

\* the map/filter of removeItems, with its running `remaining`
RECURSIVE removeSeq(_, _, _)
removeSeq(inv, itemId, remaining) ==
  IF inv = <<>> THEN <<>>
  ELSE LET item == Head(inv)
       IN IF item.itemId # itemId \/ remaining <= 0
          THEN <<item>> \o removeSeq(Tail(inv), itemId, remaining)
          ELSE LET toRemove == Min(item.quantity, remaining)
                   newQty == item.quantity - toRemove
               IN (IF newQty > 0 THEN <<[item EXCEPT !.quantity = newQty]>> ELSE <<>>)
                  \o removeSeq(Tail(inv), itemId, remaining - toRemove)

\* faulty variant: one item fewer is taken
removeItems_oneShort(s, itemId, quantity) ==
  [s EXCEPT !.player.inventory = removeSeq(s.player.inventory, itemId, quantity - 1)]

removeItems(s, itemId, quantity) ==
  [s EXCEPT !.player.inventory = removeSeq(s.player.inventory, itemId, quantity)]

addItemToInventory(s, itemId, quantity) ==
  LET inv == s.player.inventory
  IN IF \E i \in 1..Len(inv) : inv[i].itemId = itemId
     THEN [s EXCEPT !.player.inventory =
             [i \in 1..Len(inv) |->
                IF inv[i].itemId = itemId
                THEN [inv[i] EXCEPT !.quantity = inv[i].quantity + quantity]
                ELSE inv[i]]]
     ELSE [s EXCEPT !.player.inventory = Append(inv, [itemId |-> itemId, quantity |-> quantity])]

----------------------------------------------------------------------------
(* engine/quests.ts *)

\* the `undefined` of Array.prototype.find
NoQuest == [id |-> "none", step |-> "none", status |-> "undefined"]

RECURSIVE findQuest(_, _)
findQuest(qs, id) ==
  IF qs = <<>> THEN NoQuest
  ELSE IF Head(qs).id = id THEN Head(qs)
  ELSE findQuest(Tail(qs), id)

getQuestState(s, id) == findQuest(s.quests, id)

\* findIndex: the first index holding the id, 0 when absent
RECURSIVE findIndex(_, _, _)
findIndex(qs, id, i) ==
  IF i > Len(qs) THEN 0
  ELSE IF qs[i].id = id THEN i
  ELSE findIndex(qs, id, i + 1)

upsertQuestState(s, quest) ==
  LET existingIndex == findIndex(s.quests, quest.id, 1)
  IN IF existingIndex >= 1
     THEN [s EXCEPT !.quests = [i \in 1..Len(s.quests) |->
                                  IF i = existingIndex THEN quest ELSE s.quests[i]]]
     ELSE [s EXCEPT !.quests = Append(s.quests, quest)]

\* faulty variant: an absent quest is not created
ensureQuestStateExists_strict(s, id) ==
  [state |-> s, quest |-> getQuestState(s, id)]

ensureQuestStateExists(s, id) ==
  LET existing == getQuestState(s, id)
  IN IF existing # NoQuest
     THEN [state |-> s, quest |-> existing]
     ELSE IF id \notin QuestIds
     THEN [state |-> s, quest |-> NoQuest]
     ELSE LET newQuest == [id |-> id, step |-> QUESTS[id][1], status |-> "not_started"]
          IN [state |-> upsertQuestState(s, newQuest), quest |-> newQuest]

setQuestStatus(s, id, status) ==
  LET ensured == ensureQuestStateExists(s, id)
  IN IF ensured.quest = NoQuest THEN s
     ELSE upsertQuestState(ensured.state, [ensured.quest EXCEPT !.status = status])

setQuestStep(s, id, step) ==
  LET ensured == ensureQuestStateExists(s, id)
  IN IF ensured.quest = NoQuest THEN s
     ELSE upsertQuestState(ensured.state, [ensured.quest EXCEPT !.step = step])

activateQuestIfNeeded(s, id) ==
  LET ensured == ensureQuestStateExists(s, id)
      quest == ensured.quest
  IN IF quest = NoQuest THEN s
     ELSE IF quest.status = "active" \/ quest.status = "completed" THEN ensured.state
     ELSE IF quest.status = "not_started"
     THEN upsertQuestState(ensured.state,
            [quest EXCEPT !.status = "active", !.step = QUESTS[id][1]])
     ELSE ensured.state

----------------------------------------------------------------------------
(* engine/encounters.ts *)

getForestRepTier(s) ==
  LET forest == s.flags.reputation.forest
  IN IF forest >= 25 THEN "revered"
     ELSE IF forest >= 10 THEN "favour"
     ELSE IF forest <= -20 THEN "hostile"
     ELSE IF forest <= -5 THEN "uneasy"
     ELSE "neutral"

\* faulty variant: every creature roams every location
getCreaturesForLocation_anywhere(locationId) == CreatureOrder

getCreaturesForLocation(locationId) ==
  SelectSeq(CreatureOrder,
            LAMBDA c : creatures[c].biome = locations[locationId].biome)

\* faulty variant: nothing stirs at the Gate
getEncounterChance_gateSafe(s) ==
  CASE s.currentLocation = "wilds" -> (IF s.flags.groveHealed THEN 15 ELSE 30)
    [] s.currentLocation = "deep_wilds" ->
         (IF s.flags.glowCommuneComplete THEN Max(20, 35 - 5) ELSE 35)
    [] s.currentLocation \in {"lake", "mine"} -> 25
    [] OTHER -> 0

\* in hundredths
getEncounterChance(s) ==
  CASE s.currentLocation = "wilds" -> (IF s.flags.groveHealed THEN 15 ELSE 30)
    [] s.currentLocation = "deep_wilds" ->
         (IF s.flags.glowCommuneComplete THEN Max(20, 35 - 5) ELSE 35)
    [] s.currentLocation \in {"lake", "mine"} -> 25
    [] s.currentLocation = "gate" -> 10
    [] OTHER -> 0

\* "none" is the null of an empty creature list
getRandomCreatureForLocation(locationId, roll) ==
  LET list == getCreaturesForLocation(locationId)
  IN IF Len(list) = 0 THEN "none"
     ELSE list[((roll * Len(list)) \div 100) + 1]

createEncounterState(s, creatureId) ==
  [s EXCEPT !.currentEncounter =
     [creatureId |-> creatureId, hp |-> creatures[creatureId].hp,
      hasRepFlavourApplied |-> FALSE]]

\* <<>> is the null of the neutral tier
createForestRepEncounterFlavor(s) ==
  IF getForestRepTier(s) = "neutral" THEN <<>>
  ELSE <<Entry("narration",
              CASE getForestRepTier(s) = "revered" -> "pauses, recognising the quiet care"
                [] getForestRepTier(s) = "favour" -> "The Wilds seem to hold their breath"
                [] getForestRepTier(s) = "uneasy" -> "The forest feels tense."
                [] OTHER -> "The air bristles.")>>

createEncounterLog(s, creatureId) == Entry("combat", "Something stirs. A creature emerges.")

isInEncounter(s) == s.currentEncounter # NoEncounter

----------------------------------------------------------------------------
(* engine/trading.ts *)

getEffectiveTradeLimit(s, tradeId) ==
  LET baseLimit == BASE_TRADE_LIMITS[tradeId]
      forestRep == s.flags.reputation.forest
      modifier == IF forestRep >= 20 THEN 2
                  ELSE IF forestRep >= 10 THEN 1
                  ELSE IF forestRep <= -15 THEN -2
                  ELSE IF forestRep <= -5 THEN -1
                  ELSE 0
  IN Max(1, baseLimit + modifier)

\* faulty variant: one use too many
canUseTrade_offByOne(s, tradeId) ==
  s.tradeUsage[tradeId] <= getEffectiveTradeLimit(s, tradeId)

canUseTrade(s, tradeId) == s.tradeUsage[tradeId] < getEffectiveTradeLimit(s, tradeId)

canAffordTrade(s, trade) ==
  \A i \in 1..Len(trade.costs) :
    countItem(s, trade.costs[i].itemId) >= trade.costs[i].quantity

RECURSIVE removeCosts(_, _)
removeCosts(s, costs) ==
  IF costs = <<>> THEN s
  ELSE removeCosts(removeItems(s, Head(costs).itemId, Head(costs).quantity), Tail(costs))

RECURSIVE addRewards(_, _)
addRewards(s, rewards) ==
  IF rewards = <<>> THEN s
  ELSE addRewards(addItemToInventory(s, Head(rewards).itemId, Head(rewards).quantity),
                  Tail(rewards))

\* faulty variant: the trade is not counted
applyTrade_uncounted(s, tradeId) ==
  LET trade == RANGER_TRADES[tradeId]
      s1 == removeCosts(s, trade.costs)
      s2 == addRewards(s1, trade.rewards)
  IN Result(s2, <<Entry("system", "trade.label")>>)

\* faulty variant: every trade is counted twice
applyTrade_countedTwice(s, tradeId) ==
  LET trade == RANGER_TRADES[tradeId]
      s1 == removeCosts(s, trade.costs)
      s2 == addRewards(s1, trade.rewards)
      s3 == [s2 EXCEPT !.tradeUsage[tradeId] = s2.tradeUsage[tradeId] + 2]
  IN Result(s3, <<Entry("system", "trade.label")>>)

applyTrade(s, tradeId) ==
  LET trade == RANGER_TRADES[tradeId]
      s1 == removeCosts(s, trade.costs)
      s2 == addRewards(s1, trade.rewards)
      s3 == [s2 EXCEPT !.tradeUsage[tradeId] = s2.tradeUsage[tradeId] + 1]
  IN Result(s3, <<Entry("system", "trade.label")>>)

----------------------------------------------------------------------------
(* engine/actions.ts: encounters after movement or gathering *)

\* faulty variant: no gate on deep_wilds
getAvailableExitsForState_ungated(s) == locations[s.currentLocation].exits

\* faulty variant: only a quest that has not started closes the gate
getAvailableExitsForState_notStartedOnly(s) ==
  {to \in locations[s.currentLocation].exits :
     to = "deep_wilds" =>
       LET hermits == getQuestState(s, "hermits_glow")
       IN ~(hermits = NoQuest \/ hermits.status = "not_started")}

\* engine/locations.ts: the exits offered to the player, as the set of their
\* destinations
getAvailableExitsForState(s) ==
  {to \in locations[s.currentLocation].exits :
     to = "deep_wilds" =>
       LET hermits == getQuestState(s, "hermits_glow")
       IN ~(hermits = NoQuest \/ hermits.status # "active")}

RunEndedEntry == Entry("system", "Your journey in this run has ended.")

\* faulty variant: the forest's regard does not change
addForestRep_unmoved(s, delta) == s

\* faulty variant: the regard is taken away
addForestRep_resented(s, delta) ==
  [s EXCEPT !.flags.reputation.forest = s.flags.reputation.forest - delta]

addForestRep(s, delta) ==
  [s EXCEPT !.flags.reputation.forest = s.flags.reputation.forest + delta]

\* rCreature, rSpawn, rSpare: the three Math.random() draws, in call order
\* faulty variant: a spawn roll is made even while a creature is faced
maybeTriggerEncounter_afresh(s, logEntries, rCreature, rSpawn, rSpare) ==
  IF s.flags.runEnded THEN Result(s, logEntries)
  ELSE LET creature == getRandomCreatureForLocation(s.currentLocation, rCreature)
           tier == getForestRepTier(s)
           base == getEncounterChance(s)
           chance == IF tier = "hostile" THEN Min(60, base + 15)
                     ELSE IF tier = "uneasy" THEN Min(50, base + 5)
                     ELSE base
           forest == s.flags.reputation.forest
       IN IF creature = "none" THEN Result(s, logEntries)
          ELSE IF rSpawn >= chance THEN Result(s, logEntries)
          ELSE IF tier \in {"favour", "revered"} /\ rSpare < Min(25, forest)
          THEN Result(s, Append(logEntries,
                 Entry("narration", "Whatever was stalking you lets you pass this time.")))
          ELSE Result(createEncounterState(s, creature),
                      logEntries \o createForestRepEncounterFlavor(s)
                                 \o <<createEncounterLog(s, creature)>>)

maybeTriggerEncounter(s, logEntries, rCreature, rSpawn, rSpare) ==
  IF isInEncounter(s) \/ s.flags.runEnded THEN Result(s, logEntries)
  ELSE LET creature == getRandomCreatureForLocation(s.currentLocation, rCreature)
           tier == getForestRepTier(s)
           base == getEncounterChance(s)
           chance == IF tier = "hostile" THEN Min(60, base + 15)
                     ELSE IF tier = "uneasy" THEN Min(50, base + 5)
                     ELSE base
           forest == s.flags.reputation.forest
       IN IF creature = "none" THEN Result(s, logEntries)
          ELSE IF rSpawn >= chance THEN Result(s, logEntries)
          ELSE IF tier \in {"favour", "revered"} /\ rSpare < Min(25, forest)
          THEN Result(s, Append(logEntries,
                 Entry("narration", "Whatever was stalking you lets you pass this time.")))
          ELSE Result(createEncounterState(s, creature),
                      logEntries \o createForestRepEncounterFlavor(s)
                                 \o <<createEncounterLog(s, creature)>>)

----------------------------------------------------------------------------
(* engine/actions.ts: moveTo, sense, gather *)

\* faulty variant: returning to the sanctum resets the gather counters
moveTo_resetAtSanctum(s, destination, rCreature, rSpawn, rSpare) ==
  IF s.flags.runEnded
  THEN Result(s, <<Entry("system", "Your journey in this run has ended. You cannot move.")>>)
  ELSE IF destination \notin locations[s.currentLocation].exits
  THEN Result(s, <<Entry("narration", "You cannot go there from here.")>>)
  ELSE LET s0 == [s EXCEPT !.currentLocation = destination]
           s1 == IF destination = "sanctum"
                 THEN [s0 EXCEPT !.gather = createInitialState.gather]
                 ELSE s0
           hermitsQuest == getQuestState(s1, "hermits_glow")
           foundGlow == /\ destination = "deep_wilds"
                        /\ hermitsQuest # NoQuest
                        /\ hermitsQuest.status = "active"
                        /\ hermitsQuest.step = "unlocked"
           s2 == IF foundGlow
                 THEN addForestRep(setQuestStep(s1, "hermits_glow", "found_glow"), 2)
                 ELSE s1
       IN maybeTriggerEncounter(s2, <<Entry("narration", "You move.")>>,
                                rCreature, rSpawn, rSpare)

moveTo(s, destination, rCreature, rSpawn, rSpare) ==
  IF s.flags.runEnded
  THEN Result(s, <<Entry("system", "Your journey in this run has ended. You cannot move.")>>)
  ELSE IF destination \notin locations[s.currentLocation].exits
  THEN Result(s, <<Entry("narration", "You cannot go there from here.")>>)
  ELSE LET s1 == [s EXCEPT !.currentLocation = destination]
           moveLog == Entry("narration", "You move.")
           hermitsQuest == getQuestState(s1, "hermits_glow")
           foundGlow == /\ destination = "deep_wilds"
                        /\ hermitsQuest # NoQuest
                        /\ hermitsQuest.status = "active"
                        /\ hermitsQuest.step = "unlocked"
           s2 == IF foundGlow
                 THEN addForestRep(setQuestStep(s1, "hermits_glow", "found_glow"), 2)
                 ELSE s1
           logEntries == IF foundGlow
                         THEN <<moveLog,
                                Entry("quest", "Quest updated: Hermit's Glow"),
                                Entry("system", "Forest regard increases slightly. (+2)")>>
                         ELSE <<moveLog>>
       IN maybeTriggerEncounter(s2, logEntries, rCreature, rSpawn, rSpare)

\* faulty variant: the echo is revealed at the lake whatever the quest's step
sense_echoAlways(s) ==
  IF s.flags.runEnded THEN Result(s, <<RunEndedEntry>>)
  ELSE LET senseLog == Entry("narration", "senseAt")
       IN IF s.currentLocation = "lake"
          THEN Result([setQuestStep(s, "echoes_at_the_lake", "return_to_hermit")
                         EXCEPT !.flags.lakeEchoesFound = TRUE],
                      <<senseLog, Entry("quest", "The Hermit should hear of this.")>>)
          ELSE Result(s, <<senseLog>>)

\* the flavour line senseAt() picks is one entry; its wording is not modelled
sense(s) ==
  IF s.flags.runEnded THEN Result(s, <<RunEndedEntry>>)
  ELSE LET echoesQuest == getQuestState(s, "echoes_at_the_lake")
           shouldRevealEcho == /\ echoesQuest # NoQuest
                               /\ echoesQuest.status = "active"
                               /\ echoesQuest.step = "investigate_lake"
                               /\ s.currentLocation = "lake"
                               /\ ~s.flags.lakeEchoesFound
           senseLog == Entry("narration", "senseAt")
       IN IF shouldRevealEcho
          THEN Result([setQuestStep(s, "echoes_at_the_lake", "return_to_hermit")
                         EXCEPT !.flags.lakeEchoesFound = TRUE],
                      <<senseLog, Entry("quest", "The Hermit should hear of this.")>>)
          ELSE Result(s, <<senseLog>>)

\* the item the current location yields now: "none" for null
\* faulty variant: the caps are compared with > instead of >=
gatherItem_offByOne(s) ==
  CASE s.currentLocation = "wilds" ->
         (IF s.gather.wildsHerbs > MAX_HERBS THEN "none" ELSE "forest_herb")
    [] s.currentLocation = "deep_wilds" ->
         (IF s.gather.luminousFragments > MAX_LUMINOUS THEN "none" ELSE "luminous_fragment")
    [] s.currentLocation = "lake" ->
         (IF s.gather.lakeWater > MAX_WATER THEN "none" ELSE "lake_water")
    [] s.currentLocation = "mine" ->
         (IF s.gather.mineOre > MAX_ORE THEN "none" ELSE "raw_ore")
    [] OTHER -> "none"

gatherItem(s) ==
  CASE s.currentLocation = "wilds" ->
         (IF s.gather.wildsHerbs >= MAX_HERBS THEN "none" ELSE "forest_herb")
    [] s.currentLocation = "deep_wilds" ->
         (IF s.gather.luminousFragments >= MAX_LUMINOUS THEN "none" ELSE "luminous_fragment")
    [] s.currentLocation = "lake" ->
         (IF s.gather.lakeWater >= MAX_WATER THEN "none" ELSE "lake_water")
    [] s.currentLocation = "mine" ->
         (IF s.gather.mineOre >= MAX_ORE THEN "none" ELSE "raw_ore")
    [] OTHER -> "none"

\* the "nothing more to take" line of a location at its cap
gatherOverride(s) ==
  /\ s.currentLocation \in {"wilds", "deep_wilds", "lake", "mine"}
  /\ gatherItem(s) = "none"

\* faulty variant: the step advances on the herbs alone
gather_waterless(s, rCreature, rSpawn, rSpare) ==
  IF s.flags.runEnded THEN Result(s, <<RunEndedEntry>>)
  ELSE LET itemId == gatherItem(s)
           s1 == IF itemId = "none" THEN s
                 ELSE LET a == addItemToInventory(s, itemId, 1)
                      IN CASE itemId = "forest_herb" ->
                                [a EXCEPT !.gather.wildsHerbs = a.gather.wildsHerbs + 1]
                           [] itemId = "lake_water" ->
                                [a EXCEPT !.gather.lakeWater = a.gather.lakeWater + 1]
                           [] itemId = "raw_ore" ->
                                [a EXCEPT !.gather.mineOre = a.gather.mineOre + 1]
                           [] itemId = "luminous_fragment" ->
                                [a EXCEPT !.gather.luminousFragments =
                                            a.gather.luminousFragments + 1]
                           [] OTHER -> a
           healQuest == getQuestState(s1, "heal_the_grove")
           ready == /\ healQuest # NoQuest
                    /\ healQuest.status = "active"
                    /\ healQuest.step = "gather_ingredients"
                    /\ countItem(s1, "forest_herb") >= 3
           s2 == IF ready THEN setQuestStep(s1, "heal_the_grove", "perform_ritual") ELSE s1
           logEntry == IF gatherOverride(s)
                       THEN Entry("narration", "nothing more to take")
                       ELSE IF itemId # "none"
                       THEN Entry("narration", "gatherAt (n/cap gathered)")
                       ELSE Entry("narration", "gatherAt")
       IN maybeTriggerEncounter(s2, <<logEntry>>, rCreature, rSpawn, rSpare)

gather_(s, rCreature, rSpawn, rSpare) ==
  IF s.flags.runEnded THEN Result(s, <<RunEndedEntry>>)
  ELSE LET itemId == gatherItem(s)
           s1 == IF itemId = "none" THEN s
                 ELSE LET a == addItemToInventory(s, itemId, 1)
                      IN CASE itemId = "forest_herb" ->
                                [a EXCEPT !.gather.wildsHerbs = a.gather.wildsHerbs + 1]
                           [] itemId = "lake_water" ->
                                [a EXCEPT !.gather.lakeWater = a.gather.lakeWater + 1]
                           [] itemId = "raw_ore" ->
                                [a EXCEPT !.gather.mineOre = a.gather.mineOre + 1]
                           [] itemId = "luminous_fragment" ->
                                [a EXCEPT !.gather.luminousFragments =
                                            a.gather.luminousFragments + 1]
                           [] OTHER -> a
           healQuest == getQuestState(s1, "heal_the_grove")
           ready == /\ healQuest # NoQuest
                    /\ healQuest.status = "active"
                    /\ healQuest.step = "gather_ingredients"
                    /\ countItem(s1, "forest_herb") >= 3
                    /\ countItem(s1, "lake_water") >= 1
           s2 == IF ready THEN setQuestStep(s1, "heal_the_grove", "perform_ritual") ELSE s1
           logEntry == IF gatherOverride(s)
                       THEN Entry("narration", "nothing more to take")
                       ELSE IF itemId # "none"
                       THEN Entry("narration", "gatherAt (n/cap gathered)")
                       ELSE Entry("narration", "gatherAt")
       IN maybeTriggerEncounter(s2, <<logEntry>>, rCreature, rSpawn, rSpare)

----------------------------------------------------------------------------
(* engine/actions.ts: talkTo *)

Narr(text) == Entry("narration", text)

\* npc.introLines.map(...): one narration entry per intro line
RECURSIVE introLog(_)
introLog(n) == IF n = 0 THEN <<>> ELSE Append(introLog(n - 1), Narr("introLine"))

\* faulty variant: the conversation is not remembered
writeNpcMemory_forgotten(s, st, npcId) == st

\* flags.npcMemory written back with this NPC's timesSpoken + 1, computed from
\* the memory of the state talkTo was called with
writeNpcMemory(s, st, npcId) ==
  [st EXCEPT !.flags.npcMemory =
     [s.flags.npcMemory EXCEPT ![npcId] = s.flags.npcMemory[npcId] + 1]]

\* the generic introduction / repeat greeting at the end of talkTo
talkFallback(s, st, npcId, logEntries) ==
  LET firstTime == s.flags.npcMemory[npcId] = 0
      lines == IF firstTime THEN introLog(npcs[npcId].introLines)
               ELSE IF npcId = "ranger_trader"
               THEN <<Narr("glances up, already familiar"), Narr("Supplies are as before.")>>
               ELSE <<Narr("gives you a small nod")>>
  IN Result(writeNpcMemory(s, st, npcId), logEntries \o lines)

talkCaretaker(s) ==
  LET npcId == "caretaker"
      healQuest == getQuestState(s, "heal_the_grove")
      groveHealed == s.flags.groveHealed
      firstTime == s.flags.npcMemory[npcId] = 0
  IN IF healQuest = NoQuest \/ healQuest.status = "not_started"
     THEN Result(writeNpcMemory(s,
                   setQuestStep(activateQuestIfNeeded(s, "heal_the_grove"),
                                "heal_the_grove", "gather_ingredients"),
                   npcId),
                 <<Narr("Welcome back, traveler."), Narr("The Wilds feel uneasy."),
                   Narr("If you feel called, you could help heal it.")>>)
     ELSE IF healQuest.status = "active" /\ healQuest.step = "gather_ingredients"
             /\ ~groveHealed
     THEN Result(writeNpcMemory(s, s, npcId),
                 IF firstTime
                 THEN <<Narr("You've sensed it too"), Narr("Gather herbs and water")>>
                 ELSE <<Narr("gives you a small nod")>>)
     ELSE IF healQuest.status = "active" /\ healQuest.step = "return_to_caretaker"
             /\ groveHealed
     THEN Result(writeNpcMemory(s,
                   setQuestStatus(setQuestStep(s, "heal_the_grove", "grove_healed"),
                                  "heal_the_grove", "completed"),
                   npcId),
                 <<Narr("You did something out there, didn't you?")>>)
     ELSE IF healQuest.status = "completed"
     THEN Result(writeNpcMemory(s, s, npcId),
                 IF firstTime
                 THEN <<Narr("The Sanctum breathes easier now."),
                        Narr("The grove is calm again.")>>
                 ELSE <<Narr("gives you a small nod")>>)
     ELSE talkFallback(s, s, npcId, <<>>)

talkHermit(s) ==
  LET npcId == "hermit"
      echoesQuest == getQuestState(s, "echoes_at_the_lake")
      hermitsGlowQuest == getQuestState(s, "hermits_glow")
      hermitFragmentQuest == getQuestState(s, "hermit_fragment")
      hasFragment == countItem(s, "luminous_fragment") > 0
      glowLine == IF hermitsGlowQuest # NoQuest /\ hermitsGlowQuest.status = "completed"
                  THEN <<Narr("The Glow has taken your measure.")>>
                  ELSE <<>>
  IN IF echoesQuest # NoQuest /\ echoesQuest.status = "active"
        /\ echoesQuest.step = "return_to_hermit"
     THEN Result(writeNpcMemory(s,
                   addForestRep(
                     setQuestStatus(setQuestStep(s, "echoes_at_the_lake", "completed"),
                                    "echoes_at_the_lake", "completed"), 3),
                   npcId),
                 <<Narr("You felt it too, didn't you?"),
                   Narr("Those echoes do not belong to the Wilds."),
                   Entry("quest", "Quest completed: Echoes at the Lake."),
                   Entry("system", "Forest regard increases. (+3 favour)")>>)
     ELSE IF echoesQuest # NoQuest /\ echoesQuest.status = "completed"
             /\ (hermitsGlowQuest = NoQuest \/ hermitsGlowQuest.status = "not_started")
     THEN Result(writeNpcMemory(s,
                   setQuestStep(
                     setQuestStatus(activateQuestIfNeeded(s, "hermits_glow"),
                                    "hermits_glow", "active"),
                     "hermits_glow", "unlocked"),
                   npcId),
                 <<Narr("I've seen a pale glow deeper in the Wilds."),
                   Narr("you might seek it out soon."),
                   Entry("quest", "Quest started: Hermit's Glow.")>>)
     ELSE IF echoesQuest # NoQuest /\ echoesQuest.status = "completed"
             /\ hermitsGlowQuest.status = "active"
     THEN Result(writeNpcMemory(s, s, npcId),
                 <<Narr("Those lights are still out there.")>>)
     ELSE IF hasFragment
             /\ (hermitFragmentQuest = NoQuest \/ hermitFragmentQuest.status = "not_started")
     THEN Result(writeNpcMemory(s,
                   setQuestStep(
                     setQuestStatus(activateQuestIfNeeded(s, "hermit_fragment"),
                                    "hermit_fragment", "active"),
                     "hermit_fragment", "unlocked"),
                   npcId),
                 <<Narr("You found that pale shard?"),
                   Entry("quest", "Quest started: Hermit's Gift")>>)
     ELSE IF hermitFragmentQuest # NoQuest /\ hermitFragmentQuest.status = "active"
             /\ hasFragment
     THEN LET s1 == removeItems(s, "luminous_fragment", 1)
              s2 == setQuestStatus(setQuestStep(s1, "hermit_fragment", "delivered"),
                                   "hermit_fragment", "completed")
              s3 == applyXp(s2, 5).state
          IN Result(writeNpcMemory(s, addForestRep(s3, 2), npcId),
                    glowLine \o
                    <<Narr("Ah. Let me see that..."),
                      Narr("The Hermit studies the fragment"),
                      Entry("system", "You gain 5 XP and forest regard increases. (+2)")>>)
     ELSE talkFallback(s, s, npcId, glowLine)

\* faulty variant: the NPC answers wherever the player stands
talkTo_fromAfar(s, npcId) ==
  IF s.flags.runEnded THEN Result(s, <<RunEndedEntry>>)
  ELSE IF npcId \notin NpcIds
  THEN Result(s, <<Entry("system", "There is no one like that here.")>>)
  ELSE IF npcId = "caretaker" THEN talkCaretaker(s)
  ELSE IF npcId = "hermit" THEN talkHermit(s)
  ELSE talkFallback(s, s, npcId, <<>>)

talkTo(s, npcId) ==
  IF s.flags.runEnded THEN Result(s, <<RunEndedEntry>>)
  ELSE IF npcId \notin NpcIds
  THEN Result(s, <<Entry("system", "There is no one like that here.")>>)
  ELSE IF npcs[npcId].location # s.currentLocation
  THEN Result(s, <<Entry("system", "is not here.")>>)
  ELSE IF npcId = "caretaker" THEN talkCaretaker(s)
  ELSE IF npcId = "hermit" THEN talkHermit(s)
  ELSE talkFallback(s, s, npcId, <<>>)

----------------------------------------------------------------------------
(* engine/text.ts *)

\* "" is the null of the tiers that add no suffix
getRepFlavourForCreatureHit(tier) ==
  IF tier \in {"favour", "revered"} THEN "the blow feels strangely restrained."
  ELSE IF tier = "hostile" THEN "the strike lands with the weight of the forest's anger."
  ELSE ""

----------------------------------------------------------------------------
(* engine/actions.ts: attack, attemptEscape *)

\* faulty variant: the blow glances off
playerDamageTo_glancing(creatureId) == Max(0, 1 - creatures[creatureId].defence)

playerDamageTo(creatureId) == Max(1, 4 - creatures[creatureId].defence)

\* faulty variant: the creature strikes with its full attack
creatureDamageOf_full(creatureId) == creatures[creatureId].attack

creatureDamageOf(creatureId) == Max(0, creatures[creatureId].attack - 1)

\* faulty variant: death leaves the encounter in place
playerDies_keepEncounter(st) ==
  [st EXCEPT !.player.hp = 0, !.flags.runEnded = TRUE]

\* player death: hp clamped to 0, encounter cleared, the run-ended latch set
\* faulty variant: death does not end the run
playerDies_unlatched(st) ==
  [st EXCEPT !.player.hp = 0,
             !.currentEncounter = NoEncounter]

playerDies(st) ==
  [st EXCEPT !.player.hp = 0,
             !.currentEncounter = NoEncounter,
             !.flags.runEnded = IF st.flags.runEnded THEN st.flags.runEnded ELSE TRUE]

\* the death line, pushed unless the run had already ended
deathLog(s) == IF ~s.flags.runEnded THEN <<Narr(DeathText)>> ELSE <<>>

\* faulty variant: the creature lands its blow before it falls
killingBlow_struck(s, hitLog) ==
  LET creatureDamage == Max(0, creatures[s.currentEncounter.creatureId].attack - 1)
      xpResult == applyXp([s EXCEPT !.currentEncounter = NoEncounter], 10)
      st == xpResult.state
  IN Result([st EXCEPT !.player.hp = Max(0, st.player.hp - creatureDamage)],
            <<hitLog, Entry("combat", "unravels and is gone."),
              Entry("system", "You gain 10 XP.")>>)

\* the creature falls: the encounter ends and the player earns 10 xp
killingBlow(s, hitLog) ==
  LET encounter == s.currentEncounter
      xpResult == applyXp([s EXCEPT !.currentEncounter = NoEncounter], 10)
      drop == encounter.creatureId = "will_o_wisp"
  IN Result(IF drop
            THEN addItemToInventory(xpResult.state, "luminous_fragment", 1)
            ELSE xpResult.state,
            <<hitLog, Entry("combat", "unravels and is gone."),
              IF xpResult.levelledUp
              THEN Entry("system", "You have grown stronger.")
              ELSE Entry("system", "You gain 10 XP.")>>
            \o (IF drop THEN <<Narr("a luminous fragment.")>> ELSE <<>>))

\* the creature survives with creatureHpAfter and strikes back
retaliation(s, creatureHpAfter, hitLog, rStrike) ==
  LET encounter == s.currentEncounter
      creatureDamage == creatureDamageOf(encounter.creatureId)
      playerHpAfter == Max(0, s.player.hp - creatureDamage)
      repFlavour == getRepFlavourForCreatureHit(getForestRepTier(s))
      suffix == /\ ~encounter.hasRepFlavourApplied
                /\ creatureDamage > 0
                /\ repFlavour # ""
      s1 == [s EXCEPT !.player.hp = playerHpAfter,
                      !.currentEncounter =
                         [encounter EXCEPT
                            !.hp = creatureHpAfter,
                            !.hasRepFlavourApplied =
                               encounter.hasRepFlavourApplied \/ suffix]]
      strikeLog == EntryV("combat",
                          IF suffix THEN "creatureHitsPlayer + repFlavour"
                          ELSE "creatureHitsPlayer",
                          pick(3, rStrike))
  IN IF playerHpAfter <= 0
     THEN Result(playerDies(s1), <<hitLog, strikeLog>> \o deathLog(s))
     ELSE Result(s1, <<hitLog, strikeLog>>)

\* rHit, rStrike: the Math.random() draws of hitCreature and creatureHitsPlayer
attack(s, rHit, rStrike) ==
  IF ~isInEncounter(s)
  THEN Result(s, <<Entry("system", "There is nothing here to strike.")>>)
  ELSE IF s.currentEncounter.creatureId \notin CreatureIds
  THEN Result([s EXCEPT !.currentEncounter = NoEncounter],
              <<Entry("system", "The threat wavers and slips away.")>>)
  ELSE LET encounter == s.currentEncounter
           playerDamage == playerDamageTo(encounter.creatureId)
           creatureHpAfter == Max(0, encounter.hp - playerDamage)
           hitLog == EntryV("combat", "hitCreature", pick(3, rHit))
       IN IF creatureHpAfter <= 0
          THEN killingBlow(s, hitLog)
          ELSE retaliation(s, creatureHpAfter, hitLog, rStrike)

\* faulty variant: the creature lets go after its free hit
attemptEscape_letGo(s, rFlee, rText) ==
  IF ~isInEncounter(s)
  THEN Result(s, <<Entry("system", "There is nothing to escape from.")>>)
  ELSE IF s.currentEncounter.creatureId \notin CreatureIds
  THEN Result([s EXCEPT !.currentEncounter = NoEncounter],
              <<Entry("system", "The presence fades as suddenly as it came.")>>)
  ELSE IF rFlee < 70
  THEN Result([s EXCEPT !.currentEncounter = NoEncounter],
              <<EntryV("combat", "escapeSuccess", pick(3, rText))>>)
  ELSE LET creatureDamage == creatureDamageOf(s.currentEncounter.creatureId)
           newHp == Max(0, s.player.hp - creatureDamage)
           s1 == [s EXCEPT !.player.hp = newHp, !.currentEncounter = NoEncounter]
           failLog == EntryV("combat", "escapeFail", pick(3, rText))
       IN IF newHp <= 0
          THEN Result(playerDies(s1), <<failLog>> \o deathLog(s))
          ELSE Result(s1, <<failLog>>)

\* rFlee: the escape roll; rText: the draw of escapeSuccess / escapeFail
attemptEscape(s, rFlee, rText) ==
  IF ~isInEncounter(s)
  THEN Result(s, <<Entry("system", "There is nothing to escape from.")>>)
  ELSE IF s.currentEncounter.creatureId \notin CreatureIds
  THEN Result([s EXCEPT !.currentEncounter = NoEncounter],
              <<Entry("system", "The presence fades as suddenly as it came.")>>)
  ELSE IF rFlee < 70
  THEN Result([s EXCEPT !.currentEncounter = NoEncounter],
              <<EntryV("combat", "escapeSuccess", pick(3, rText))>>)
  ELSE LET creatureDamage == creatureDamageOf(s.currentEncounter.creatureId)
           newHp == Max(0, s.player.hp - creatureDamage)
           s1 == [s EXCEPT !.player.hp = newHp]
           failLog == EntryV("combat", "escapeFail", pick(3, rText))
       IN IF newHp <= 0
          THEN Result(playerDies(s1), <<failLog>> \o deathLog(s))
          ELSE Result(s1, <<failLog>>)

----------------------------------------------------------------------------
(* engine/actions.ts: performGroveRitual, communeWithGlow *)

\* faulty variant: only the herbs are checked
hasRitualIngredients_herbsOnly(s) == ~(countItem(s, "forest_herb") < 3)

\* the ingredient check that precedes any removal
hasRitualIngredients(s) ==
  ~(countItem(s, "forest_herb") < 3 \/ countItem(s, "lake_water") < 1)

\* faulty variant: the "already healed" check is missing
groveAlreadyHealed_never(s) == FALSE

\* the grove is healed already, by flag or by quest status
groveAlreadyHealed(s) ==
  LET healQuest == getQuestState(s, "heal_the_grove")
  IN s.flags.groveHealed \/ (healQuest # NoQuest /\ healQuest.status = "completed")

\* faulty variant: the ritual sends the player back to the Caretaker, who
\* alone completes the quest
performGroveRitual_reportFirst(s) ==
  LET healQuest == getQuestState(s, "heal_the_grove")
      ritualStepActive == /\ healQuest # NoQuest
                          /\ healQuest.status = "active"
                          /\ healQuest.step \in {"gather_ingredients", "perform_ritual"}
  IN IF s.flags.runEnded THEN Result(s, <<RunEndedEntry>>)
     ELSE IF s.currentLocation # "wilds"
     THEN Result(s, <<Entry("system", "The ritual belongs to the grove in the Wilds.")>>)
     ELSE IF groveAlreadyHealed(s)
     THEN Result(s, <<Narr("The grove already stands in still, luminous peace.")>>)
     ELSE IF ~ritualStepActive
     THEN Result(s, <<Narr("The ritual is not yet ready to be performed.")>>)
     ELSE IF ~hasRitualIngredients(s)
     THEN Result(s, <<Entry("system", "You do not yet have what the grove asks of you")>>)
     ELSE LET s1 == removeItems(removeItems(s, "forest_herb", 3), "lake_water", 1)
              s2 == setQuestStep(activateQuestIfNeeded(s1, "heal_the_grove"),
                                 "heal_the_grove", "return_to_caretaker")
              s3 == addForestRep([s2 EXCEPT !.flags.groveHealed = TRUE,
                                            !.flags.lakeEchoesFound = FALSE], 10)
              s4 == setQuestStep(
                      setQuestStatus(activateQuestIfNeeded(s3, "echoes_at_the_lake"),
                                     "echoes_at_the_lake", "active"),
                      "echoes_at_the_lake", "investigate_lake")
          IN Result(s4, <<Narr("You arrange herbs and water"),
                          Narr("a held breath released."),
                          Entry("quest", "Quest updated: the grove is calmer now."),
                          Entry("system", "You sense the Wilds regard you differently now."),
                          Entry("quest", "the Lake seems to shiver with new echoes.")>>)

performGroveRitual(s) ==
  LET healQuest == getQuestState(s, "heal_the_grove")
      ritualStepActive == /\ healQuest # NoQuest
                          /\ healQuest.status = "active"
                          /\ healQuest.step \in {"gather_ingredients", "perform_ritual"}
  IN IF s.flags.runEnded THEN Result(s, <<RunEndedEntry>>)
     ELSE IF s.currentLocation # "wilds"
     THEN Result(s, <<Entry("system", "The ritual belongs to the grove in the Wilds.")>>)
     ELSE IF groveAlreadyHealed(s)
     THEN Result(s, <<Narr("The grove already stands in still, luminous peace.")>>)
     ELSE IF ~ritualStepActive
     THEN Result(s, <<Narr("The ritual is not yet ready to be performed.")>>)
     ELSE IF ~hasRitualIngredients(s)
     THEN Result(s, <<Entry("system", "You do not yet have what the grove asks of you")>>)
     ELSE LET s1 == removeItems(removeItems(s, "forest_herb", 3), "lake_water", 1)
              s2 == setQuestStatus(
                      setQuestStep(activateQuestIfNeeded(s1, "heal_the_grove"),
                                   "heal_the_grove", "grove_healed"),
                      "heal_the_grove", "completed")
              s3 == addForestRep([s2 EXCEPT !.flags.groveHealed = TRUE,
                                            !.flags.lakeEchoesFound = FALSE], 10)
              s4 == setQuestStep(
                      setQuestStatus(activateQuestIfNeeded(s3, "echoes_at_the_lake"),
                                     "echoes_at_the_lake", "active"),
                      "echoes_at_the_lake", "investigate_lake")
          IN Result(s4, <<Narr("You arrange herbs and water"),
                          Narr("a held breath released."),
                          Entry("quest", "Quest updated: the grove is calmer now."),
                          Entry("system", "You sense the Wilds regard you differently now."),
                          Entry("quest", "the Lake seems to shiver with new echoes.")>>)

\* faulty variant: the communion rewards but leaves the quest open
communeWithGlow_unfinished(s) ==
  LET glowQuest == getQuestState(s, "hermits_glow")
  IN IF s.flags.runEnded THEN Result(s, <<RunEndedEntry>>)
     ELSE IF s.currentLocation # "deep_wilds"
     THEN Result(s, <<Entry("system", "The Glow is not here.")>>)
     ELSE IF glowQuest = NoQuest \/ glowQuest.status # "active"
     THEN Result(s, <<Narr("it does not yet answer you.")>>)
     ELSE IF glowQuest.step # "found_glow" /\ glowQuest.step # "commune_with_glow"
     THEN Result(s, <<Narr("waiting for something you have not yet done.")>>)
     ELSE LET first == glowQuest.step = "found_glow"
              s1 == IF first THEN setQuestStep(s, "hermits_glow", "commune_with_glow")
                    ELSE s
              s2 == [addForestRep(s1, 8) EXCEPT !.flags.glowCommuneComplete = TRUE]
              s3 == s2
          IN Result(s3, (IF first
                         THEN <<Narr("You step into the circle of pale motes."),
                                Narr("you feel the Wilds looking through you")>>
                         ELSE <<>>)
                        \o <<Narr("The light sinks into the roots and into you."),
                             Narr("You sense a new steadiness in the Wilds")>>)

communeWithGlow(s) ==
  LET glowQuest == getQuestState(s, "hermits_glow")
  IN IF s.flags.runEnded THEN Result(s, <<RunEndedEntry>>)
     ELSE IF s.currentLocation # "deep_wilds"
     THEN Result(s, <<Entry("system", "The Glow is not here.")>>)
     ELSE IF glowQuest = NoQuest \/ glowQuest.status # "active"
     THEN Result(s, <<Narr("it does not yet answer you.")>>)
     ELSE IF glowQuest.step # "found_glow" /\ glowQuest.step # "commune_with_glow"
     THEN Result(s, <<Narr("waiting for something you have not yet done.")>>)
     ELSE LET first == glowQuest.step = "found_glow"
              s1 == IF first THEN setQuestStep(s, "hermits_glow", "commune_with_glow")
                    ELSE s
              s2 == [addForestRep(s1, 8) EXCEPT !.flags.glowCommuneComplete = TRUE]
              s3 == setQuestStep(setQuestStatus(s2, "hermits_glow", "completed"),
                                 "hermits_glow", "completed")
          IN Result(s3, (IF first
                         THEN <<Narr("You step into the circle of pale motes."),
                                Narr("you feel the Wilds looking through you")>>
                         ELSE <<>>)
                        \o <<Narr("The light sinks into the roots and into you."),
                             Narr("You sense a new steadiness in the Wilds")>>)

----------------------------------------------------------------------------
(* engine/actions.ts: performTrade, consumeHealingTonic *)

\* faulty variant: the run-ended check is missing
performTrade_noLatch(s, tradeId) ==
  IF s.currentLocation # "trader_post"
  THEN Result(s, <<Entry("system", "You need to be at the Trader's Post to make that deal.")>>)
  ELSE IF tradeId \notin TradeIds
  THEN Result(s, <<Entry("system", "The Ranger doesn't seem to understand that trade.")>>)
  ELSE IF ~canAffordTrade(s, RANGER_TRADES[tradeId])
  THEN Result(s, <<Entry("system", "You don't have what you need for that trade.")>>)
  ELSE IF ~canUseTrade(s, tradeId)
  THEN Result(s, <<Entry("system", "that deal is no longer available.")>>)
  ELSE applyTrade(s, tradeId)

performTrade(s, tradeId) ==
  IF s.flags.runEnded THEN Result(s, <<RunEndedEntry>>)
  ELSE IF s.currentLocation # "trader_post"
  THEN Result(s, <<Entry("system", "You need to be at the Trader's Post to make that deal.")>>)
  ELSE IF tradeId \notin TradeIds
  THEN Result(s, <<Entry("system", "The Ranger doesn't seem to understand that trade.")>>)
  ELSE IF ~canAffordTrade(s, RANGER_TRADES[tradeId])
  THEN Result(s, <<Entry("system", "You don't have what you need for that trade.")>>)
  ELSE IF ~canUseTrade(s, tradeId)
  THEN Result(s, <<Entry("system", "that deal is no longer available.")>>)
  ELSE applyTrade(s, tradeId)

\* faulty variant: the tonic still works on a fallen player and revives them
consumeHealingTonic_revive(s) ==
  IF countItem(s, "healing_tonic") < 1
  THEN Result(s, <<Entry("system", "You do not have a healing tonic.")>>)
  ELSE LET s1 == removeItems(s, "healing_tonic", 1)
           newHp == Min(s1.player.maxHp, s1.player.hp + 8)
       IN Result([s1 EXCEPT !.player.hp = newHp, !.flags.runEnded = FALSE],
                 <<Narr("You uncork the vial and drink the sharp, bitter tonic."),
                   Entry("system", "You restore HP.")>>)

\* faulty variant: a player at full health keeps the tonic
consumeHealingTonic_sparing(s) ==
  IF s.flags.runEnded THEN Result(s, <<RunEndedEntry>>)
  ELSE IF countItem(s, "healing_tonic") < 1
  THEN Result(s, <<Entry("system", "You do not have a healing tonic.")>>)
  ELSE IF s.player.hp >= s.player.maxHp
  THEN Result(s, <<Entry("system", "The tonic has no effect")>>)
  ELSE LET s1 == removeItems(s, "healing_tonic", 1)
           newHp == Min(s1.player.maxHp, s1.player.hp + 8)
       IN Result([s1 EXCEPT !.player.hp = newHp],
                 <<Narr("You uncork the vial and drink the sharp, bitter tonic."),
                   Entry("system", "You restore HP.")>>)

consumeHealingTonic(s) ==
  IF s.flags.runEnded THEN Result(s, <<RunEndedEntry>>)
  ELSE IF countItem(s, "healing_tonic") < 1
  THEN Result(s, <<Entry("system", "You do not have a healing tonic.")>>)
  ELSE LET s1 == removeItems(s, "healing_tonic", 1)
           newHp == Min(s1.player.maxHp, s1.player.hp + 8)
           actualHeal == newHp - s1.player.hp
       IN Result([s1 EXCEPT !.player.hp = newHp],
                 <<Narr("You uncork the vial and drink the sharp, bitter tonic."),
                   IF actualHeal > 0
                   THEN Entry("system", "You restore HP.")
                   ELSE Entry("system", "The tonic has no effect")>>)

----------------------------------------------------------------------------
(* The state machine: the caller holds the current GameState, calls one      *)
(* operation per player intent and stores the returned state (GameScreen).   *)

\* the current GameState
GS ==
  [currentLocation |-> currentLocation, player |-> player, quests |-> quests,
   flags |-> flags, currentEncounter |-> currentEncounter, gather |-> gather,
   tradeUsage |-> tradeUsage]

RECURSIVE countDeathLines(_)
countDeathLines(entries) ==
  IF entries = <<>> THEN 0
  ELSE (IF Head(entries).text = DeathText THEN 1 ELSE 0) + countDeathLines(Tail(entries))

\* setGameState(result.state), after appendLog of every returned entry;
\* of state.log the model keeps the number of death lines
Store(result) ==
  /\ currentLocation' = result.state.currentLocation
  /\ player' = result.state.player
  /\ quests' = result.state.quests
  /\ flags' = result.state.flags
  /\ currentEncounter' = result.state.currentEncounter
  /\ gather' = result.state.gather
  /\ tradeUsage' = result.state.tradeUsage
  /\ logDeathLines' = logDeathLines + countDeathLines(result.logEntries)

Init ==
  /\ currentLocation = createInitialState.currentLocation
  /\ player = createInitialState.player
  /\ quests = createInitialState.quests
  /\ flags = createInitialState.flags
  /\ currentEncounter = createInitialState.currentEncounter
  /\ gather = createInitialState.gather
  /\ tradeUsage = createInitialState.tradeUsage
  /\ logDeathLines = 0

\* ids a caller can pass besides the declared ones
TradeArgs == TradeIds \cup {"unknown_trade"}
NpcArgs == NpcIds \cup {"unknown_npc"}

\* R: the samples of Math.random() the operations may draw
MoveTo(R) ==
  \E destination \in LocationIds, r \in R :
    Store(moveTo(GS, destination, r[1], r[2], r[3]))

Sense == Store(sense(GS))

Gather(R) == \E r \in R : Store(gather_(GS, r[1], r[2], r[3]))

TalkTo == \E npcId \in NpcArgs : Store(talkTo(GS, npcId))

Attack(R) == \E r \in R : Store(attack(GS, r[1], r[2]))

AttemptEscape(R) == \E r \in R : Store(attemptEscape(GS, r[1], r[2]))

PerformGroveRitual == Store(performGroveRitual(GS))

CommuneWithGlow == Store(communeWithGlow(GS))

PerformTrade == \E tradeId \in TradeArgs : Store(performTrade(GS, tradeId))

ConsumeHealingTonic == Store(consumeHealingTonic(GS))

\* handleNewRun: a fresh initial state, with an empty log
NewRun ==
  /\ currentLocation' = createInitialState.currentLocation
  /\ player' = createInitialState.player
  /\ quests' = createInitialState.quests
  /\ flags' = createInitialState.flags
  /\ currentEncounter' = createInitialState.currentEncounter
  /\ gather' = createInitialState.gather
  /\ tradeUsage' = createInitialState.tradeUsage
  /\ logDeathLines' = 0

\* what the model explores of a run: the resources gathered, the
\* conversations held and the xp earned stay within the bounds
gathered == gather.wildsHerbs + gather.lakeWater + gather.mineOre + gather.luminousFragments

spoken == flags.npcMemory["caretaker"] + flags.npcMemory["hermit"]
          + flags.npcMemory["ranger_trader"]

Within(maxGathered, maxSpoken, maxXp) ==
  /\ gathered <= maxGathered
  /\ spoken <= maxSpoken
  /\ player.xp <= maxXp

\* the bounds of the specifications
InBounds == Within(MaxGathered, MaxSpoken, MaxXp)

InBoundsCalm == Within(MaxGatheredCalm, MaxSpokenCalm, MaxXp)

InBoundsQuest == Within(MaxGatheredQuest, MaxSpokenQuest, MaxXp)

\* the whole game, encounters included
Next ==
  \/ MoveTo(Rolls) /\ InBounds'
  \/ Sense /\ InBounds'
  \/ Gather(Rolls) /\ InBounds'
  \/ TalkTo /\ InBounds'
  \/ Attack(Rolls) /\ InBounds'
  \/ AttemptEscape(Rolls) /\ InBounds'
  \/ PerformGroveRitual /\ InBounds'
  \/ CommuneWithGlow /\ InBounds'
  \/ PerformTrade /\ InBounds'
  \/ ConsumeHealingTonic /\ InBounds'
  \/ NewRun

Spec == Init /\ [][Next]_vars

\* the game with a generator that always misses the spawn roll
NextCalm ==
  \/ MoveTo(CalmRolls) /\ InBoundsCalm'
  \/ Sense /\ InBoundsCalm'
  \/ Gather(CalmRolls) /\ InBoundsCalm'
  \/ TalkTo /\ InBoundsCalm'
  \/ Attack(CalmRolls) /\ InBoundsCalm'
  \/ AttemptEscape(CalmRolls) /\ InBoundsCalm'
  \/ PerformGroveRitual /\ InBoundsCalm'
  \/ CommuneWithGlow /\ InBoundsCalm'
  \/ PerformTrade /\ InBoundsCalm'
  \/ ConsumeHealingTonic /\ InBoundsCalm'
  \/ NewRun

SpecCalm == Init /\ [][NextCalm]_vars

\* the same generator, with fewer resources and the caretaker's errand
NextQuest ==
  \/ MoveTo(CalmRolls) /\ InBoundsQuest'
  \/ Sense /\ InBoundsQuest'
  \/ Gather(CalmRolls) /\ InBoundsQuest'
  \/ TalkTo /\ InBoundsQuest'
  \/ Attack(CalmRolls) /\ InBoundsQuest'
  \/ AttemptEscape(CalmRolls) /\ InBoundsQuest'
  \/ PerformGroveRitual /\ InBoundsQuest'
  \/ CommuneWithGlow /\ InBoundsQuest'
  \/ PerformTrade /\ InBoundsQuest'
  \/ ConsumeHealingTonic /\ InBoundsQuest'
  \/ NewRun

SpecQuest == Init /\ [][NextQuest]_vars

\* a move through one of the exit buttons the screen offers
MoveOffered(R) ==
  \E destination \in getAvailableExitsForState(GS), r \in R :
    Store(moveTo(GS, destination, r[1], r[2], r[3]))

InBoundsChain == Within(MaxGatheredChain, MaxSpokenChain, MaxXp)

\* the chain of quests played from the screen, with the generator that misses
NextChain ==
  \/ MoveOffered(CalmRolls) /\ InBoundsChain'
  \/ Sense /\ InBoundsChain'
  \/ Gather(CalmRolls) /\ InBoundsChain'
  \/ TalkTo /\ InBoundsChain'
  \/ Attack(CalmRolls) /\ InBoundsChain'
  \/ AttemptEscape(CalmRolls) /\ InBoundsChain'
  \/ PerformGroveRitual /\ InBoundsChain'
  \/ CommuneWithGlow /\ InBoundsChain'
  \/ PerformTrade /\ InBoundsChain'
  \/ ConsumeHealingTonic /\ InBoundsChain'
  \/ NewRun

SpecChain == Init /\ [][NextChain]_vars

\* the amounts of xp a player gains: the engine's own grants (5, 10) and
\* others a caller may pass
XpGains == {1, 5, 10, 25, 60}

\* a new player, hale or wounded (by failed escapes), who has earned no xp yet
InitXp ==
  /\ currentLocation = createInitialState.currentLocation
  /\ \E hp \in 1..createInitialState.player.maxHp :
       player = [createInitialState.player EXCEPT !.hp = hp]
  /\ quests = createInitialState.quests
  /\ flags = createInitialState.flags
  /\ currentEncounter = createInitialState.currentEncounter
  /\ gather = createInitialState.gather
  /\ tradeUsage = createInitialState.tradeUsage
  /\ logDeathLines = 0

\* setGameState(applyXp(state, amount).state)
ApplyXp ==
  \E amount \in XpGains :
    /\ player' = applyXp(GS, amount).state.player
    /\ player'.xp <= MaxXpHeld
    /\ UNCHANGED <<currentLocation, quests, flags, currentEncounter, gather,
                   tradeUsage, logDeathLines>>

NextXp == ApplyXp

SpecXp == InitXp /\ [][NextXp]_vars

\* a generator that either spawns a creature or misses
RiteRolls == {<<0, 0, 70>>} \cup CalmRolls

InBoundsRite == Within(MaxGatheredRite, MaxSpokenRite, 0)

\* the way to the grove ritual, with creatures met while gathering and fought
\* but not slain
NextRite ==
  \/ MoveTo(CalmRolls) /\ InBoundsRite'
  \/ Gather(RiteRolls) /\ InBoundsRite'
  \/ TalkTo /\ InBoundsRite'
  \/ Attack(CalmRolls) /\ InBoundsRite'
  \/ PerformGroveRitual /\ InBoundsRite'
  \/ NewRun

SpecRite == Init /\ [][NextRite]_vars

InBoundsSaga ==
  /\ Within(MaxGatheredSaga, MaxSpokenSaga, MaxXp)
  /\ gather.mineOre <= MaxOreSaga
  /\ flags.npcMemory["ranger_trader"] <= MaxTraderSaga

\* a run that follows the quests: no fights, no trades, no ore
NextSaga ==
  \/ MoveTo(CalmRolls) /\ InBoundsSaga'
  \/ Sense /\ InBoundsSaga'
  \/ Gather(CalmRolls) /\ InBoundsSaga'
  \/ TalkTo /\ InBoundsSaga'
  \/ PerformGroveRitual /\ InBoundsSaga'
  \/ CommuneWithGlow /\ InBoundsSaga'
  \/ NewRun

SpecSaga == Init /\ [][NextSaga]_vars

InBoundsLarder == Within(MaxGatheredLarder, MaxSpokenLarder, MaxXp)

\* a run of gathering, trading and the ritual, without fights
NextLarder ==
  \/ MoveTo(CalmRolls) /\ InBoundsLarder'
  \/ Gather(CalmRolls) /\ InBoundsLarder'
  \/ TalkTo /\ InBoundsLarder'
  \/ PerformGroveRitual /\ InBoundsLarder'
  \/ PerformTrade /\ InBoundsLarder'
  \/ NewRun

SpecLarder == Init /\ [][NextLarder]_vars

InBoundsFight == Within(0, 0, MaxXpFight)

\* a run of fights up to the last level
NextFight ==
  \/ MoveTo(Rolls) /\ InBoundsFight'
  \/ Sense /\ InBoundsFight'
  \/ Gather(Rolls) /\ InBoundsFight'
  \/ TalkTo /\ InBoundsFight'
  \/ Attack(Rolls) /\ InBoundsFight'
  \/ AttemptEscape(Rolls) /\ InBoundsFight'
  \/ PerformGroveRitual /\ InBoundsFight'
  \/ CommuneWithGlow /\ InBoundsFight'
  \/ PerformTrade /\ InBoundsFight'
  \/ ConsumeHealingTonic /\ InBoundsFight'
  \/ NewRun

SpecFight == Init /\ [][NextFight]_vars

\* a saved game resumed at the Trader's Post or in the Wilds (loadState hands
\* the stored GameState back as it is), and the trades made from there
MaxStock == 4
MaxUsage == 3
ForestReps == {-15, -5, 0, 10, 20}

Stock(itemId, n) == IF n > 0 THEN <<[itemId |-> itemId, quantity |-> n]>> ELSE <<>>

InitTrade ==
  /\ currentLocation \in {"trader_post", "wilds"}
  /\ \E h \in 0..MaxStock, o \in 0..MaxStock :
       /\ player = [createInitialState.player EXCEPT
                      !.inventory = Stock("forest_herb", h) \o Stock("raw_ore", o)]
       /\ gather = [createInitialState.gather EXCEPT
                      !.wildsHerbs = Min(h, MAX_HERBS), !.mineOre = Min(o, MAX_ORE)]
  /\ quests = createInitialState.quests
  /\ \E f \in ForestReps :
       flags = [createInitialState.flags EXCEPT !.reputation.forest = f]
  /\ currentEncounter = createInitialState.currentEncounter
  /\ tradeUsage \in [TradeIds -> 0..MaxUsage]
  /\ logDeathLines = 0

NextTrade == PerformTrade

SpecTrade == InitTrade /\ [][NextTrade]_vars

----------------------------------------------------------------------------
(* Properties *)

\* the draws the properties range over: those of the runs and more
Draws == Rolls \cup CalmRolls \cup {<<0, 20, 70>>, <<99, 99, 99>>}

\* every result an operation can return from state s
Outcomes(s) ==
  {moveTo(s, d, r[1], r[2], r[3]) : d \in LocationIds, r \in Draws}
  \cup {sense(s)}
  \cup {gather_(s, r[1], r[2], r[3]) : r \in Draws}
  \cup {talkTo(s, n) : n \in NpcArgs}
  \cup {attack(s, r[1], r[2]) : r \in Draws}
  \cup {attemptEscape(s, r[1], r[2]) : r \in Draws}
  \cup {performGroveRitual(s), communeWithGlow(s), consumeHealingTonic(s)}
  \cup {performTrade(s, t) : t \in TradeArgs}

\* C1: the run-ended latch is one-way: from a state whose flags.runEnded is
\* true, no operation (moveTo, sense, gather, talkTo, attack, attemptEscape,
\* performTrade, performGroveRitual, communeWithGlow, consumeHealingTonic)
\* returns a state where it is false; the fresh initial state is the only reset.
RunEndedLatch ==
  /\ ~createInitialState.flags.runEnded
  /\ flags.runEnded => \A res \in Outcomes(GS) : res.state.flags.runEnded

\* a fallen player who still carries a healing tonic
FallenWithTonic == flags.runEnded /\ player.hp = 0 /\ countItem(GS, "healing_tonic") >= 1

\* the creature survives the player's blow and its retaliation is lethal
LethalRetaliation(s) ==
  /\ isInEncounter(s)
  /\ s.currentEncounter.creatureId \in CreatureIds
  /\ LET c == creatures[s.currentEncounter.creatureId]
     IN /\ s.currentEncounter.hp - Max(1, 4 - c.defence) > 0
        /\ s.player.hp - Max(0, c.attack - 1) <= 0

\* C2: when the creature's retaliation in attack brings the player's hp to 0
\* or below, the returned state has hp 0, runEnded true and no encounter, the
\* returned entries hold exactly one death line, and a following attack
\* returns only "There is nothing here to strike."; the log of one run never
\* holds more than one death line.
DeathLineOnce ==
  /\ logDeathLines <= 1
  /\ LethalRetaliation(GS) =>
       \A r \in Draws :
         LET res == attack(GS, r[1], r[2])
         IN /\ res.state.player.hp = 0
            /\ res.state.flags.runEnded
            /\ ~isInEncounter(res.state)
            /\ countDeathLines(res.logEntries) = 1
            /\ \A q \in Draws :
                 attack(res.state, q[1], q[2])
                   = Result(res.state,
                            <<Entry("system", "There is nothing here to strike.")>>)

\* Scenario C: hp 2, facing a creature that retaliates for 2 and survives the blow
AtDeathsDoor == LethalRetaliation(GS) /\ player.hp = 2 /\ ~flags.runEnded

\* C3: in every reachable state with flags.runEnded true, each operation
\* returns a state equal to its input in every field.
BlockedAfterRunEnded ==
  flags.runEnded => \A res \in Outcomes(GS) : res.state = GS

\* a fallen player at the Trader's Post who could pay for a trade
FallenAtTraderPost ==
  /\ flags.runEnded
  /\ currentLocation = "trader_post"
  /\ \E t \in TradeIds : canAffordTrade(GS, RANGER_TRADES[t])

\* C4: if the player cannot afford every cost of a trade, or the trade's
\* usage counter has reached its effective limit, performTrade returns a
\* state identical to its input.
TradeAtomic ==
  \A t \in TradeIds :
    LET unaffordable == \E i \in 1..Len(RANGER_TRADES[t].costs) :
                          countItem(GS, RANGER_TRADES[t].costs[i].itemId)
                            < RANGER_TRADES[t].costs[i].quantity
        exhausted == tradeUsage[t] >= getEffectiveTradeLimit(GS, t)
    IN (unaffordable \/ exhausted) => performTrade(GS, t).state = GS

\* at the counter with the goods in hand, the last use of the deal just made
ExhaustedButAffordable ==
  /\ currentLocation = "trader_post"
  /\ \E t \in TradeIds :
       /\ canAffordTrade(GS, RANGER_TRADES[t])
       /\ tradeUsage[t] = getEffectiveTradeLimit(GS, t)
       /\ tradeUsage[t] > MaxUsage

\* C5: in every reachable state every inventory entry has quantity > 0 and
\* no item id appears in two entries.
InventoryWellFormed ==
  LET inv == player.inventory
  IN /\ \A i \in 1..Len(inv) : inv[i].quantity > 0
     /\ \A i, j \in 1..Len(inv) : i # j => inv[i].itemId # inv[j].itemId

\* a trade has taken the last herbs: their entry is gone, the tonic is there
HerbsSpent ==
  /\ tradeUsage["herbs_for_tonic"] = 1
  /\ gather.wildsHerbs = 3
  /\ countItem(GS, "forest_herb") = 0
  /\ Len(player.inventory) = 1

\* the resource of a location and its cap per run, as the rules state them
ResourceAt(locationId) ==
  CASE locationId = "wilds" -> "forest_herb"
    [] locationId = "lake" -> "lake_water"
    [] locationId = "mine" -> "raw_ore"
    [] locationId = "deep_wilds" -> "luminous_fragment"
    [] OTHER -> "none"

CapAt(locationId) ==
  CASE locationId = "wilds" -> 5
    [] locationId = "lake" -> 3
    [] locationId = "mine" -> 4
    [] locationId = "deep_wilds" -> 2
    [] OTHER -> 0

CounterAt(s, locationId) ==
  CASE locationId = "wilds" -> s.gather.wildsHerbs
    [] locationId = "lake" -> s.gather.lakeWater
    [] locationId = "mine" -> s.gather.mineOre
    [] locationId = "deep_wilds" -> s.gather.luminousFragments
    [] OTHER -> 0

ItemIds == {"forest_herb", "lake_water", "raw_ore", "luminous_fragment", "healing_tonic"}

\* C6: in a run that has not ended, gather below the location's cap adds
\* exactly 1 of the location's item and increments that location's counter by
\* exactly 1; at the cap, or where there is no resource, the inventory and all
\* gather counters are unchanged.
GatherCaps ==
  ~flags.runEnded =>
    \A r \in Draws :
      LET res == gather_(GS, r[1], r[2], r[3]).state
          here == currentLocation
          item == ResourceAt(here)
      IN IF item # "none" /\ CounterAt(GS, here) < CapAt(here)
         THEN /\ \A x \in ItemIds :
                   countItem(res, x) = countItem(GS, x) + (IF x = item THEN 1 ELSE 0)
              /\ \A l \in LocationIds :
                   CounterAt(res, l) = CounterAt(GS, l) + (IF l = here THEN 1 ELSE 0)
         ELSE /\ res.player.inventory = GS.player.inventory
              /\ res.gather = GS.gather

\* five herbs gathered in the Wilds: the sixth gather is at the cap
HerbsAtCap ==
  currentLocation = "wilds" /\ gather.wildsHerbs = 5 /\ countItem(GS, "forest_herb") = 5

\* C7: no operation lowers a gather counter or a trade usage counter (moving
\* back to the sanctum included), the gather counters stay within their caps
\* (5, 3, 4, 2), and the fresh initial state has them all at 0.
CountersMonotone ==
  /\ gather.wildsHerbs <= 5 /\ gather.lakeWater <= 3
  /\ gather.mineOre <= 4 /\ gather.luminousFragments <= 2
  /\ \A l \in LocationIds : CounterAt(createInitialState, l) = 0
  /\ \A t \in TradeIds : createInitialState.tradeUsage[t] = 0
  /\ \A res \in Outcomes(GS) :
       /\ \A l \in LocationIds : CounterAt(res.state, l) >= CounterAt(GS, l)
       /\ \A t \in TradeIds : res.state.tradeUsage[t] >= tradeUsage[t]

\* one step from the sanctum, with resources gathered this run
NearSanctumWithCounters ==
  /\ currentLocation = "gate"
  /\ gather.wildsHerbs >= 1
  /\ gather.lakeWater >= 1

\* C8: one attack on an active encounter takes max(1, 4 - defence) from the
\* creature's hp, clamped at 0; if the creature's hp is still above 0 the
\* player loses max(0, attack - 1) hp in the same call, clamped at 0; the
\* draws change neither amount.
CombatDamage ==
  (isInEncounter(GS) /\ currentEncounter.creatureId \in CreatureIds) =>
    LET c == creatures[currentEncounter.creatureId]
        creatureHp == Max(0, currentEncounter.hp - Max(1, 4 - c.defence))
        playerHp == Max(0, player.hp - Max(0, c.attack - 1))
    IN \A r \in Draws :
         LET res == attack(GS, r[1], r[2]).state
         IN /\ isInEncounter(res) => res.currentEncounter.hp = creatureHp
            /\ creatureHp > 0 => res.player.hp = playerHp
            /\ (creatureHp > 0 /\ playerHp > 0) => isInEncounter(res)
            /\ \A q \in Draws : attack(GS, q[1], q[2]).state = res

\* mid-fight with a mine shade: both sides already hurt
MidFight ==
  /\ isInEncounter(GS)
  /\ currentEncounter.creatureId = "mine_shade"
  /\ currentEncounter.hp = 6
  /\ player.hp = 14

\* C9: when an attack brings the creature's hp to 0, the returned state has
\* no encounter, the player's xp is higher by exactly 10, and the player's hp
\* is not lower than before the attack.
KillingBlowUnanswered ==
  (/\ isInEncounter(GS)
   /\ currentEncounter.creatureId \in CreatureIds
   /\ currentEncounter.hp
        - Max(1, 4 - creatures[currentEncounter.creatureId].defence) <= 0) =>
    \A r \in Draws :
      LET res == attack(GS, r[1], r[2]).state
      IN /\ ~isInEncounter(res)
         /\ res.player.xp = player.xp + 10
         /\ res.player.hp >= player.hp

\* a hurt player, already level 2, one blow from a second kill
SecondKillAtHand ==
  /\ isInEncounter(GS)
  /\ currentEncounter.hp <= 3
  /\ player.xp = 10
  /\ player.hp < player.maxHp

\* C10: performGroveRitual either removes exactly 3 forest_herb and 1
\* lake_water and completes the ritual, or returns the input state unchanged;
\* with fewer than 3 forest_herb or no lake_water it returns it unchanged.
RitualAtomic ==
  LET res == performGroveRitual(GS).state
      done == /\ \A x \in ItemIds :
                   countItem(res, x) = countItem(GS, x)
                     - (CASE x = "forest_herb" -> 3 [] x = "lake_water" -> 1 [] OTHER -> 0)
              /\ res.flags.groveHealed
              /\ getQuestState(res, "heal_the_grove").status = "completed"
  IN /\ res = GS \/ done
     /\ (countItem(GS, "forest_herb") < 3 \/ countItem(GS, "lake_water") < 1) => res = GS

\* at the grove with the ritual asked for, herbs in hand and no water
HerbsButNoWater ==
  /\ currentLocation = "wilds"
  /\ ~flags.groveHealed
  /\ getQuestState(GS, "heal_the_grove").status = "active"
  /\ countItem(GS, "forest_herb") >= 3
  /\ countItem(GS, "lake_water") = 0

\* C11: performGroveRitual applied again to the state a successful ritual
\* returned gives back that state (flags, inventory, quests, reputation) with
\* only the "already stands in still, luminous peace" line; once the grove is
\* healed no ritual changes the state, so its rewards are applied at most once.
RitualIdempotent ==
  LET first == performGroveRitual(GS).state
      peace == <<Narr("The grove already stands in still, luminous peace.")>>
  IN /\ first # GS => performGroveRitual(first) = Result(first, peace)
     /\ (flags.groveHealed /\ currentLocation = "wilds" /\ ~flags.runEnded)
          => performGroveRitual(GS) = Result(GS, peace)
     /\ flags.groveHealed => flags.reputation.forest >= 10

\* at the grove after the ritual, the ingredients spent
HealedGrove ==
  /\ flags.groveHealed
  /\ currentLocation = "wilds"
  /\ getQuestState(GS, "heal_the_grove").status = "completed"
  /\ player.inventory = <<>>

\* hermits_glow has a record with status active in s
HermitsGlowActive(s) ==
  LET hermits == getQuestState(s, "hermits_glow")
  IN hermits # NoQuest /\ hermits.status = "active"

\* C12 as stated: a moveTo call changes currentLocation to deep_wilds only if
\* hermits_glow is active in the state it is applied to.
MoveToGatesDeepWilds ==
  \A destination \in LocationIds, r \in Draws :
    LET res == moveTo(GS, destination, r[1], r[2], r[3]).state
    IN (res.currentLocation = "deep_wilds" /\ currentLocation # "deep_wilds")
         => HermitsGlowActive(GS)

\* C12, amended: moveTo accepts every declared exit; the gate is the exit
\* list. A move through an exit that getAvailableExitsForState offers changes
\* currentLocation to deep_wilds only if hermits_glow is active in the state
\* it is applied to, and in a run whose moves all go through offered exits
\* the player stands in deep_wilds only with hermits_glow active or completed.
OfferedMovesGateDeepWilds ==
  /\ \A destination \in getAvailableExitsForState(GS), r \in Draws :
       LET res == moveTo(GS, destination, r[1], r[2], r[3]).state
       IN res.currentLocation = "deep_wilds" => HermitsGlowActive(GS)
  /\ currentLocation = "deep_wilds" =>
       getQuestState(GS, "hermits_glow").status \in {"active", "completed"}

\* in the Wilds with the Hermit's errand given: the way deeper is offered
GlowSoughtFromWilds ==
  /\ currentLocation = "wilds"
  /\ HermitsGlowActive(GS)
  /\ "deep_wilds" \in getAvailableExitsForState(GS)

\* s as an older save holds it: without the record of quest id
WithoutQuest(s, id) == [s EXCEPT !.quests = SelectSeq(s.quests, LAMBDA q : q.id # id)]

\* C13: getAvailableExitsForState returns exactly the declared exits of the
\* current location, except that the exit to deep_wilds is absent when the
\* hermits_glow record is missing or its status is not active, and present
\* when it is active.
ExitsOffered ==
  \A s \in {GS, WithoutQuest(GS, "hermits_glow")} :
    LET offered == getAvailableExitsForState(s)
        declared == locations[s.currentLocation].exits
    IN /\ offered \ {"deep_wilds"} = declared \ {"deep_wilds"}
       /\ "deep_wilds" \in offered
            <=> ("deep_wilds" \in declared /\ HermitsGlowActive(s))

\* back in the Wilds after communing with the Glow: the gate is closed again
GlowMetBackInWilds ==
  /\ currentLocation = "wilds"
  /\ getQuestState(GS, "hermits_glow").status = "completed"
  /\ flags.glowCommuneComplete


\* the adjustment the reputation tier stands for
tierModifier(tier) ==
  CASE tier = "revered" -> 2
    [] tier = "favour" -> 1
    [] tier = "uneasy" -> -1
    [] tier = "hostile" -> -2
    [] OTHER -> 0

\* C14: the effective usage limit of every limited trade is
\* max(1, base + m), m being +2 in the revered tier (score >= 25), +1 in the
\* favour tier (score >= 10), 0 in the neutral tier, -1 in the uneasy tier
\* (score <= -5) and -2 in the hostile tier (score <= -20).
TradeLimitByTier ==
  \A tradeId \in DOMAIN BASE_TRADE_LIMITS :
    getEffectiveTradeLimit(GS, tradeId)
      = Max(1, BASE_TRADE_LIMITS[tradeId] + tierModifier(getForestRepTier(GS)))


\* the results of the calls from state s that violate a precondition
Refusals(s) ==
  LET healQuest == getQuestState(s, "heal_the_grove")
      glowQuest == getQuestState(s, "hermits_glow")
      ritualEligible == /\ healQuest # NoQuest
                        /\ healQuest.status = "active"
                        /\ healQuest.step \in {"gather_ingredients", "perform_ritual"}
      communeEligible == /\ glowQuest # NoQuest
                         /\ glowQuest.status = "active"
                         /\ glowQuest.step \in {"found_glow", "commune_with_glow"}
  IN {moveTo(s, d, r[1], r[2], r[3]) :
        d \in LocationIds \ locations[s.currentLocation].exits, r \in Draws}
     \cup {talkTo(s, n) :
             n \in {m \in NpcArgs :
                      m \in NpcIds => npcs[m].location # s.currentLocation}}
     \cup (IF isInEncounter(s) THEN {}
           ELSE {attack(s, r[1], r[2]) : r \in Draws}
                \cup {attemptEscape(s, r[1], r[2]) : r \in Draws})
     \cup (IF s.currentLocation = "wilds" /\ ritualEligible THEN {}
           ELSE {performGroveRitual(s)})
     \cup (IF s.currentLocation = "deep_wilds" /\ communeEligible THEN {}
           ELSE {communeWithGlow(s)})
     \cup {performTrade(s, t) :
             t \in (IF s.currentLocation = "trader_post"
                    THEN TradeArgs \ TradeIds ELSE TradeArgs)}
     \cup (IF countItem(s, "healing_tonic") < 1 THEN {consumeHealingTonic(s)} ELSE {})

\* C15: a call that violates a precondition (moveTo to a location that is not
\* an exit, talkTo an NPC who is absent or unknown, attack or attemptEscape
\* without an encounter, the ritual or the communion at the wrong place or
\* with the quest not eligible, performTrade away from the post or with an
\* unknown trade, consumeHealingTonic without a tonic) returns the input
\* state and exactly one log entry, of type system or narration.
RefusalsLeaveState ==
  \A res \in Refusals(GS) :
    /\ res.state = GS
    /\ Len(res.logEntries) = 1
    /\ res.logEntries[1].type \in {"system", "narration"}

\* at the Trader's Post with the grove quest under way, empty-handed:
\* nobody to fight, no tonic to drink, the grove and the Caretaker elsewhere
EmptyHandedAtPost ==
  /\ currentLocation = "trader_post"
  /\ ~isInEncounter(GS)
  /\ ~flags.runEnded
  /\ countItem(GS, "healing_tonic") < 1
  /\ getQuestState(GS, "heal_the_grove").status = "active"


\* attemptEscape got away: only the encounter is gone
Fled(s, res) == res.state = [s EXCEPT !.currentEncounter = NoEncounter]

\* attemptEscape failed: the creature's free hit, and death if it was the last
Caught(s, res) ==
  LET damage == Max(0, creatures[s.currentEncounter.creatureId].attack - 1)
      newHp == Max(0, s.player.hp - damage)
  IN IF newHp > 0
     THEN /\ res.state = [s EXCEPT !.player.hp = newHp]
          /\ countDeathLines(res.logEntries) = 0
     ELSE /\ res.state = [s EXCEPT !.player.hp = 0,
                                   !.currentEncounter = NoEncounter,
                                   !.flags.runEnded = TRUE]
          /\ countDeathLines(res.logEntries) = 1

\* C16: attemptEscape on an active encounter either succeeds (the encounter
\* is cleared, hp and every other field unchanged) or fails (player hp is
\* reduced by max(0, attack - 1) clamped at 0, the creature's hp is unchanged
\* and the encounter stays, unless hp reached 0: then the encounter is
\* cleared, runEnded is set and one death line is emitted). Both outcomes
\* occur.
EscapeOutcomes ==
  isInEncounter(GS) =>
    LET results == {attemptEscape(GS, r[1], r[2]) : r \in Draws}
    IN /\ \A res \in results : Fled(GS, res) \/ Caught(GS, res)
       /\ \E res \in results : Fled(GS, res)
       /\ \E res \in results : Caught(GS, res)

\* a fresh creature holds a player whom one more failed escape would kill
CorneredWhileFleeing ==
  /\ isInEncounter(GS)
  /\ currentEncounter.hp = creatures[currentEncounter.creatureId].hp
  /\ player.hp < player.maxHp
  /\ player.hp <= Max(0, creatures[currentEncounter.creatureId].attack - 1)


\* the result holds an encounter the state it came from did not
NewEncounter(s, res) == isInEncounter(res.state) /\ ~isInEncounter(s)

\* a new encounter is with a creature of the biome the player now stands in,
\* at that creature's base hp
FreshAndNative(res) ==
  LET encounter == res.state.currentEncounter
  IN /\ encounter.creatureId \in CreatureIds
     /\ creatures[encounter.creatureId].biome = locations[res.state.currentLocation].biome
     /\ encounter.hp = creatures[encounter.creatureId].hp

\* C17: an encounter is created only by the spawn roll that ends a moveTo or
\* a gather the engine carried out, and only from a state with no encounter
\* and the run not ended; an active encounter is never replaced; the new
\* encounter's creature has the biome of the (new) current location and its
\* base hp; where no creature matches the biome, no encounter is created.
SpawnOnlyAfterMoveOrGather ==
  LET moves == {<<d, moveTo(GS, d, r[1], r[2], r[3])>> : d \in LocationIds, r \in Draws}
      gathers == {gather_(GS, r[1], r[2], r[3]) : r \in Draws}
      others == {sense(GS), performGroveRitual(GS), communeWithGlow(GS),
                 consumeHealingTonic(GS)}
                \cup {talkTo(GS, n) : n \in NpcArgs}
                \cup {attack(GS, r[1], r[2]) : r \in Draws}
                \cup {attemptEscape(GS, r[1], r[2]) : r \in Draws}
                \cup {performTrade(GS, t) : t \in TradeArgs}
  IN /\ \A res \in others : ~NewEncounter(GS, res)
     /\ \A m \in moves :
          NewEncounter(GS, m[2]) =>
            /\ ~flags.runEnded
            /\ m[1] \in locations[currentLocation].exits
            /\ m[2].state.currentLocation = m[1]
            /\ FreshAndNative(m[2])
     /\ \A res \in gathers :
          NewEncounter(GS, res) =>
            /\ ~flags.runEnded
            /\ res.state.currentLocation = currentLocation
            /\ FreshAndNative(res)
     /\ \A res \in gathers \cup {m[2] : m \in moves} :
          /\ isInEncounter(GS) => res.state.currentEncounter = currentEncounter
          /\ getCreaturesForLocation(res.state.currentLocation) = <<>>
               => res.state.currentEncounter = currentEncounter
     /\ \A res \in others :
          (isInEncounter(GS) /\ isInEncounter(res.state)) =>
            /\ res.state.currentEncounter.creatureId = currentEncounter.creatureId
            /\ res.state.currentEncounter.hp <= currentEncounter.hp

\* a lake wisp has just risen before a player who has been through a fight
WispRisesAtLake ==
  /\ currentLocation = "lake"
  /\ currentEncounter.creatureId = "lake_wisp"
  /\ currentEncounter.hp = creatures["lake_wisp"].hp
  /\ player.hp < player.maxHp


\* the place of a status in not_started < active < completed; an absent
\* record stands before them
statusRank(quest) ==
  CASE quest.status = "not_started" -> 1
    [] quest.status = "active" -> 2
    [] quest.status = "completed" -> 3
    [] OTHER -> 0

\* the place of the quest's step in its definition's step list; 0 when the
\* record is absent or the step is not declared
stepIndex(quest) ==
  IF quest.id \notin QuestIds THEN 0
  ELSE LET steps == QUESTS[quest.id]
           at == {i \in 1..Len(steps) : steps[i] = quest.step}
       IN IF at = {} THEN 0 ELSE CHOOSE i \in at : TRUE

QuestStatuses == {"not_started", "active", "completed"}

\* state s with one more quest record at the end of state.quests
WithNewQuest(s, id, step, status) ==
  [s EXCEPT !.quests = Append(s.quests, [id |-> id, step |-> step, status |-> status])]

\* C19: setQuestStep and setQuestStatus on a quest id without a record in
\* state.quests create the record (not_started, at the first step of the
\* definition) and then overwrite the requested field; the returned state
\* always holds the quest with the requested step or status;
\* activateQuestIfNeeded on an absent quest creates it active at its first
\* step.
LazyQuestRecords ==
  \A id \in QuestIds :
    LET first == QUESTS[id][1]
        steps == {QUESTS[id][i] : i \in 1..Len(QUESTS[id])}
    IN /\ \A s \in {GS, WithoutQuest(GS, id)}, step \in steps :
            getQuestState(setQuestStep(s, id, step), id).step = step
       /\ \A s \in {GS, WithoutQuest(GS, id)}, status \in QuestStatuses :
            getQuestState(setQuestStatus(s, id, status), id).status = status
       /\ LET s == WithoutQuest(GS, id)
          IN /\ \A step \in steps :
                  setQuestStep(s, id, step) = WithNewQuest(s, id, step, "not_started")
             /\ \A status \in QuestStatuses :
                  setQuestStatus(s, id, status) = WithNewQuest(s, id, first, status)
             /\ activateQuestIfNeeded(s, id) = WithNewQuest(s, id, first, "active")

\* the Hermit has asked for the fragment: hermit_fragment, which a fresh
\* state has no record of, now stands at the end of state.quests
FragmentQuestCreated ==
  /\ Len(quests) = Len(createInitialState.quests) + 1
  /\ quests[Len(quests)] = [id |-> "hermit_fragment", step |-> "unlocked", status |-> "active"]


\* everything performGroveRitual asks for before it acts
RitualReady(s) ==
  LET healQuest == getQuestState(s, "heal_the_grove")
  IN /\ ~s.flags.runEnded
     /\ s.currentLocation = "wilds"
     /\ healQuest # NoQuest
     /\ healQuest.status = "active"
     /\ healQuest.step \in {"gather_ingredients", "perform_ritual"}
     /\ countItem(s, "forest_herb") >= 3
     /\ countItem(s, "lake_water") >= 1

\* C20: a successful performGroveRitual (run not ended, at wilds,
\* heal_the_grove active at gather_ingredients or perform_ritual, at least 3
\* forest_herb and 1 lake_water held) returns a state where heal_the_grove is
\* completed at grove_healed, flags.groveHealed is true, the forest
\* reputation is higher by exactly 10 and echoes_at_the_lake is active at
\* investigate_lake; so it is too from a state without a record of
\* echoes_at_the_lake.
RitualRewards ==
  \A s \in {GS, WithoutQuest(GS, "echoes_at_the_lake")} :
    RitualReady(s) =>
      LET after == performGroveRitual(s).state
      IN /\ getQuestState(after, "heal_the_grove")
              = [id |-> "heal_the_grove", step |-> "grove_healed", status |-> "completed"]
         /\ after.flags.groveHealed
         /\ after.flags.reputation.forest = s.flags.reputation.forest + 10
         /\ getQuestState(after, "echoes_at_the_lake")
              = [id |-> "echoes_at_the_lake", step |-> "investigate_lake",
                 status |-> "active"]

\* the ritual has just been performed: the grove is healed, the forest's
\* regard stands at its reward and the Lake's echoes wait to be investigated
EchoesAwakened ==
  /\ flags.groveHealed
  /\ flags.reputation.forest = 10
  /\ ~flags.lakeEchoesFound
  /\ getQuestState(GS, "echoes_at_the_lake")
       = [id |-> "echoes_at_the_lake", step |-> "investigate_lake", status |-> "active"]
  /\ getQuestState(GS, "heal_the_grove").step = "grove_healed"


\* the quantity of itemId a list of costs or rewards names
RECURSIVE listed(_, _)
listed(lines, itemId) ==
  IF lines = <<>> THEN 0
  ELSE (IF Head(lines).itemId = itemId THEN Head(lines).quantity ELSE 0)
       + listed(Tail(lines), itemId)

\* everything performTrade asks for before it trades
TradeReady(s, tradeId) ==
  /\ ~s.flags.runEnded
  /\ s.currentLocation = "trader_post"
  /\ canAffordTrade(s, RANGER_TRADES[tradeId])
  /\ canUseTrade(s, tradeId)

\* C21: a successful performTrade (at the trader post, trade affordable,
\* usage below the effective limit) removes exactly the listed quantity of
\* every cost item, adds exactly the listed quantity of every reward item,
\* increments that trade's usage counter by exactly 1, leaves every other
\* field unchanged and returns exactly one log entry.
TradeExact ==
  \A tradeId \in TradeIds :
    TradeReady(GS, tradeId) =>
      LET res == performTrade(GS, tradeId)
          trade == RANGER_TRADES[tradeId]
      IN /\ \A itemId \in ItemIds :
              countItem(res.state, itemId)
                = countItem(GS, itemId) - listed(trade.costs, itemId)
                    + listed(trade.rewards, itemId)
         /\ res.state.tradeUsage
              = [tradeUsage EXCEPT ![tradeId] = tradeUsage[tradeId] + 1]
         /\ [res.state EXCEPT !.player.inventory = player.inventory,
                              !.tradeUsage = tradeUsage] = GS
         /\ Len(res.logEntries) = 1

\* a tonic from the Ranger is in hand and another deal is still on offer
TonicInHandMoreOnOffer ==
  /\ countItem(GS, "healing_tonic") >= 1
  /\ \E tradeId \in TradeIds : TradeReady(GS, tradeId)


\* the highest level whose threshold is <= xp, counted from the thresholds
levelAt(xp) ==
  LET reached == {i \in 1..Len(XP_THRESHOLDS) : XP_THRESHOLDS[i] <= xp}
  IN IF reached = {} THEN 1 ELSE CHOOSE i \in reached : \A j \in reached : j <= i

\* C22: getLevelForXp is monotonic and follows the thresholds
\* [0, 10, 30, 60, 100]: for xp1 <= xp2 the level of xp1 is at most that of
\* xp2; the result is the highest level whose threshold is <= xp (0 gives 1,
\* 10 gives 2, 30 gives 3, 60 gives 4, 100 and above give 5); getNextLevelXp
\* is null exactly at level 5.
LevelFollowsThresholds ==
  /\ \A xp2 \in player.xp..(MaxXpHeld + 1) :
       getLevelForXp(player.xp) <= getLevelForXp(xp2)
  /\ getLevelForXp(player.xp) = levelAt(player.xp)
  /\ player.xp \in {0, 10, 30, 60, 100}
       => XP_THRESHOLDS[getLevelForXp(player.xp)] = player.xp
  /\ player.xp >= 100 => getLevelForXp(player.xp) = 5
  /\ getNextLevelXp(player.level) = -1 <=> player.level = 5
  /\ player.level < 5 => getNextLevelXp(player.level) = XP_THRESHOLDS[player.level + 1]

\* one xp short of the last level, after xp was applied
OneShortOfLastLevel == player.xp = 99 /\ player.level = 4 /\ player.hp = player.maxHp


\* the amounts applyXp is tried with: the gains, none, and a loss
XpAmounts == XpGains \cup {0, -15}

\* C23: applyXp adds the amount to xp (never below 0) and recomputes the
\* level; if the level rose by k >= 1 it raises maxHp by exactly 5 * k, sets
\* hp to the new maxHp and reports levelledUp; otherwise hp and maxHp are
\* unchanged and levelledUp is false. Nothing else of the state changes.
XpApplied ==
  \A amount \in XpAmounts :
    LET res == applyXp(GS, amount)
        after == res.state.player
        k == after.level - player.level
    IN /\ after.xp = Max(0, player.xp + amount)
       /\ after.level = levelAt(after.xp)
       /\ IF k >= 1
          THEN /\ after.maxHp = player.maxHp + 5 * k
               /\ after.hp = after.maxHp
               /\ res.levelledUp
          ELSE /\ after.maxHp = player.maxHp
               /\ after.hp = player.hp
               /\ ~res.levelledUp
       /\ after.inventory = player.inventory
       /\ [res.state EXCEPT !.player = player] = GS

\* a wounded beginner a single gain would lift two levels at once
WoundedBeforeTwoLevels ==
  /\ player.xp = 5
  /\ player.hp < player.maxHp
  /\ getLevelForXp(player.xp + 25) = player.level + 2


TonicKeptAtFullHealth ==
  (~flags.runEnded /\ countItem(GS, "healing_tonic") >= 1 /\ player.hp = player.maxHp) =>
    LET res == consumeHealingTonic(GS)
    IN /\ \E i \in 1..Len(res.logEntries) :
            res.logEntries[i] = Entry("system", "The tonic has no effect")
       /\ countItem(res.state, "healing_tonic") = countItem(GS, "healing_tonic")


Haunts == {"gate", "wilds", "lake", "mine"}

----------------------------------------------------------------------------
(* engine/actions.ts: removeItems and addItemToInventory on the heap.        *)
(* A heap is a sequence of objects, an object's reference is its index, and  *)
(* 0 is null. Object and array literals, spreads, map and filter allocate;   *)
(* nothing but an assignment to a property would write to an existing cell.  *)

Cell(kind, itemId, quantity, elems, ref, rest) ==
  [kind |-> kind, itemId |-> itemId, quantity |-> quantity, elems |-> elems,
   ref |-> ref, rest |-> rest]

\* { itemId, quantity }
ItemCell(itemId, quantity) == Cell("item", itemId, quantity, <<>>, 0, <<>>)

\* an array of references
ArrayCell(elems) == Cell("array", "", 0, elems, 0, <<>>)

\* new(heap, cell): the heap after an allocation; the new reference is its length
new(heap, cell) == Append(heap, cell)

\* the objects of GameState s that the inventory helpers walk: the items, the
\* inventory array, the player and the state; the other fields ride in `rest`
load(s) ==
  LET inv == s.player.inventory
      n == Len(inv)
  IN [heap |->
        [i \in 1..(n + 3) |->
           IF i <= n THEN ItemCell(inv[i].itemId, inv[i].quantity)
           ELSE IF i = n + 1 THEN ArrayCell([j \in 1..n |-> j])
           ELSE IF i = n + 2
           THEN Cell("player", "", 0, <<>>, n + 1,
                     [hp |-> s.player.hp, maxHp |-> s.player.maxHp,
                      xp |-> s.player.xp, level |-> s.player.level])
           ELSE Cell("state", "", 0, <<>>, n + 2,
                     [currentLocation |-> s.currentLocation, quests |-> s.quests,
                      flags |-> s.flags, currentEncounter |-> s.currentEncounter,
                      gather |-> s.gather, tradeUsage |-> s.tradeUsage])],
      root |-> n + 3]

\* the structural snapshot of the GameState a reference leads to
snapshot(heap, root) ==
  LET state == heap[root]
      playerCell == heap[state.ref]
      elems == heap[playerCell.ref].elems
  IN [currentLocation |-> state.rest.currentLocation,
      player |-> [hp |-> playerCell.rest.hp, maxHp |-> playerCell.rest.maxHp,
                  xp |-> playerCell.rest.xp, level |-> playerCell.rest.level,
                  inventory |->
                    [j \in 1..Len(elems) |->
                       [itemId |-> heap[elems[j]].itemId,
                        quantity |-> heap[elems[j]].quantity]]],
      quests |-> state.rest.quests,
      flags |-> state.rest.flags,
      currentEncounter |-> state.rest.currentEncounter,
      gather |-> state.rest.gather,
      tradeUsage |-> state.rest.tradeUsage]

\* faulty variant: item.quantity = quantity, written into the item itself
withQuantity_inPlace(heap, item, quantity) ==
  [heap |-> [heap EXCEPT ![item].quantity = quantity], ref |-> item]

\* { ...item, quantity }
withQuantity(heap, item, quantity) ==
  [heap |-> new(heap, ItemCell(heap[item].itemId, quantity)), ref |-> Len(heap) + 1]

\* { ...state, player: { ...state.player, inventory: newInventory } }
withInventory(heap, root, newInventory) ==
  LET playerCell == [heap[heap[root].ref] EXCEPT !.ref = newInventory]
      h1 == new(heap, playerCell)
      h2 == new(h1, [heap[root] EXCEPT !.ref = Len(h1)])
  IN [heap |-> h2, root |-> Len(h2)]

\* the callback of removeItems' map, element by element, with its `remaining`
RECURSIVE removeMap(_, _, _, _, _, _)
removeMap(heap, elems, i, itemId, remaining, mapped) ==
  IF i > Len(elems) THEN [heap |-> heap, mapped |-> mapped]
  ELSE LET item == elems[i]
       IN IF heap[item].itemId # itemId \/ remaining <= 0
          THEN removeMap(heap, elems, i + 1, itemId, remaining, Append(mapped, item))
          ELSE LET toRemove == Min(heap[item].quantity, remaining)
                   newQty == heap[item].quantity - toRemove
                   kept == withQuantity(heap, item, newQty)
               IN IF newQty > 0
                  THEN removeMap(kept.heap, elems, i + 1, itemId, remaining - toRemove,
                                 Append(mapped, kept.ref))
                  ELSE removeMap(heap, elems, i + 1, itemId, remaining - toRemove,
                                 Append(mapped, 0))

removeItemsH(heap, root, itemId, quantity) ==
  LET elems == heap[heap[heap[root].ref].ref].elems
      done == removeMap(heap, elems, 1, itemId, quantity, <<>>)
      h1 == new(done.heap, ArrayCell(done.mapped))
      h2 == new(h1, ArrayCell(SelectSeq(done.mapped, LAMBDA item : item # 0)))
  IN withInventory(h2, root, Len(h2))

\* the callback of addItemToInventory's map, element by element
RECURSIVE addMap(_, _, _, _, _, _)
addMap(heap, elems, i, itemId, quantity, mapped) ==
  IF i > Len(elems) THEN [heap |-> heap, mapped |-> mapped]
  ELSE LET item == elems[i]
       IN IF heap[item].itemId = itemId
          THEN LET grown == withQuantity(heap, item, heap[item].quantity + quantity)
               IN addMap(grown.heap, elems, i + 1, itemId, quantity,
                         Append(mapped, grown.ref))
          ELSE addMap(heap, elems, i + 1, itemId, quantity, Append(mapped, item))

addItemToInventoryH(heap, root, itemId, quantity) ==
  LET elems == heap[heap[heap[root].ref].ref].elems
      existing == \E j \in 1..Len(elems) : heap[elems[j]].itemId = itemId
  IN IF existing
     THEN LET done == addMap(heap, elems, 1, itemId, quantity, <<>>)
              h1 == new(done.heap, ArrayCell(done.mapped))
          IN withInventory(h1, root, Len(h1))
     ELSE LET h1 == new(heap, ItemCell(itemId, quantity))
              h2 == new(h1, ArrayCell(Append(elems, Len(h1))))
          IN withInventory(h2, root, Len(h2))

\* the quantities the engine removes or adds in one call
Quantities == {1, 2, 3}

StruckBefore(s) ==
  /\ isInEncounter(s)
  /\ s.currentEncounter.hp < creatures[s.currentEncounter.creatureId].hp
  /\ creatureDamageOf(s.currentEncounter.creatureId) > 0

\* a retaliation line with the reputation-flavoured suffix
Suffixed(entry) == entry.type = "combat" /\ entry.text = "creatureHitsPlayer + repFlavour"

\* C29: within one encounter the reputation-flavoured suffix is appended
\* only to the first damaging retaliation hit and at most once: no later hit
\* of the same encounter carries it, whatever happened between the hits.
SuffixOnFirstHitOnly ==
  StruckBefore(GS) =>
    \A r \in Draws :
      LET entries == attack(GS, r[1], r[2]).logEntries
      IN \A i \in 1..Len(entries) : ~Suffixed(entries[i])


\* the level, and the maxHp that goes with it, that a player record shows
LevelDerived(p) ==
  /\ p.level = getLevelForXp(p.xp)
  /\ p.level \in 1..5
  /\ p.maxHp = 20 + 5 * (p.level - 1)

\* C30: in every state reachable from the initial state, player.level equals
\* getLevelForXp(player.xp), lies in 1..5, and player.maxHp is
\* 20 + 5 * (player.level - 1); the same holds of every state an operation
\* returns from a reachable state.
LevelDerivedFromXp ==
  /\ LevelDerived(player)
  /\ \A res \in Outcomes(GS) : LevelDerived(res.state.player)

ThirdLevelEarned ==
  /\ player.xp >= 30
  /\ player.level = 3
  /\ player.maxHp = 30
  /\ ~isInEncounter(GS)


\* talkTo's preconditions: run not ended, NPC exists and stands here
CanTalk(s, npcId) ==
  /\ ~s.flags.runEnded
  /\ npcId \in NpcIds
  /\ npcs[npcId].location = s.currentLocation

\* C31: every talkTo that passes its preconditions (run not ended, NPC
\* exists and is at the current location) increases that NPC's timesSpoken
\* by exactly 1, whichever dialogue branch is taken, and leaves every other
\* NPC's counter unchanged; a talkTo that fails a precondition leaves all
\* counters unchanged.
TalkCountsOnce ==
  \A npcId \in NpcArgs :
    LET after == talkTo(GS, npcId).state.flags.npcMemory
    IN IF CanTalk(GS, npcId)
       THEN after = [flags.npcMemory EXCEPT ![npcId] = flags.npcMemory[npcId] + 1]
       ELSE after = flags.npcMemory

\* the Hermit, already spoken to, is about to be handed the fragment
FragmentHandInAtHand ==
  /\ CanTalk(GS, "hermit")
  /\ flags.npcMemory["hermit"] >= 1
  /\ getQuestState(GS, "hermit_fragment") # NoQuest
  /\ getQuestState(GS, "hermit_fragment").status = "active"
  /\ countItem(GS, "luminous_fragment") > 0


\* the record of heal_the_grove moved to perform_ritual, all else as it was
Advanced(qs) ==
  [i \in 1..Len(qs) |->
     IF qs[i].id = "heal_the_grove" THEN [qs[i] EXCEPT !.step = "perform_ritual"]
     ELSE qs[i]]

\* C32: after any gather that passes the run-ended check, if heal_the_grove
\* is active at step gather_ingredients and the resulting inventory holds at
\* least 3 forest_herb and at least 1 lake_water, the returned state has
\* heal_the_grove at step perform_ritual; in every other case gather leaves
\* all quest records unchanged.
GatherAdvancesQuest ==
  ~flags.runEnded =>
    \A r \in Draws :
      LET res == gather_(GS, r[1], r[2], r[3]).state
          healQuest == getQuestState(GS, "heal_the_grove")
          advance == /\ healQuest # NoQuest
                     /\ healQuest.status = "active"
                     /\ healQuest.step = "gather_ingredients"
                     /\ countItem(res, "forest_herb") >= 3
                     /\ countItem(res, "lake_water") >= 1
      IN IF advance
         THEN /\ getQuestState(res, "heal_the_grove").step = "perform_ritual"
              /\ res.quests = Advanced(quests)
         ELSE res.quests = quests

\* at the Lake with the herbs in hand, the water still to draw
WaterStillToDraw ==
  /\ currentLocation = "lake"
  /\ ~flags.runEnded
  /\ getQuestState(GS, "heal_the_grove") # NoQuest
  /\ getQuestState(GS, "heal_the_grove").step = "gather_ingredients"
  /\ countItem(GS, "forest_herb") = 3
  /\ countItem(GS, "lake_water") = 0


\* what communeWithGlow asks for before it acts
GlowAnswers(s) ==
  LET glowQuest == getQuestState(s, "hermits_glow")
  IN /\ ~s.flags.runEnded
     /\ s.currentLocation = "deep_wilds"
     /\ glowQuest # NoQuest
     /\ glowQuest.status = "active"
     /\ glowQuest.step \in {"found_glow", "commune_with_glow"}

\* the state with hermits_glow completed, the flag set and 8 reputation more
Communed(s) ==
  [s EXCEPT !.quests = [i \in 1..Len(s.quests) |->
                          IF s.quests[i].id = "hermits_glow"
                          THEN [s.quests[i] EXCEPT !.status = "completed",
                                                   !.step = "completed"]
                          ELSE s.quests[i]],
            !.flags.glowCommuneComplete = TRUE,
            !.flags.reputation.forest = s.flags.reputation.forest + 8]

\* C33: communeWithGlow is single-use: it changes the state only when the
\* run has not ended, the player is at deep_wilds and hermits_glow is active
\* at step found_glow or commune_with_glow; it then completes hermits_glow,
\* sets glowCommuneComplete and adds exactly 8 forest reputation; a second
\* call returns the state unchanged, and so does every call made once the
\* communion is complete, so the reward is granted at most once in a run.
CommuneSingleUse ==
  LET res == communeWithGlow(GS).state
  IN /\ IF GlowAnswers(GS) THEN res = Communed(GS) ELSE res = GS
     /\ communeWithGlow(res).state = res
     /\ flags.glowCommuneComplete => ~GlowAnswers(GS)
     /\ flags.glowCommuneComplete => flags.reputation.forest >= 8

\* back at the Glow after the communion and a further word with the Hermit
GlowVisitedAgain ==
  /\ flags.glowCommuneComplete
  /\ currentLocation = "deep_wilds"
  /\ flags.npcMemory["hermit"] >= 3
  /\ ~flags.runEnded


\* C34: in every reachable state that has an active encounter the run has
\* not ended, player.hp >= 1, and 1 <= encounter.hp <= the base hp of the
\* encounter's creature; and no operation applied during the encounter
\* leaves it with more hp than it had (or with another creature).
EncounterSound ==
  isInEncounter(GS) =>
    /\ ~flags.runEnded
    /\ player.hp >= 1
    /\ currentEncounter.creatureId \in CreatureIds
    /\ 1 <= currentEncounter.hp
    /\ currentEncounter.hp <= creatures[currentEncounter.creatureId].hp
    /\ \A res \in Outcomes(GS) :
         isInEncounter(res.state) =>
           /\ res.state.currentEncounter.creatureId = currentEncounter.creatureId
           /\ res.state.currentEncounter.hp <= currentEncounter.hp

\* a creature nearly unravelled, the player hurt
FoeNearlyUnravelled ==
  /\ isInEncounter(GS)
  /\ currentEncounter.hp <= 2
  /\ player.hp < player.maxHp
  /\ player.level >= 2


\* C35: in every reachable state flags.runEnded is true if and only if
\* player.hp = 0, and the same holds of every state an operation returns:
\* hp reaches 0 only through a death that sets the latch, and nothing raises
\* hp once the run has ended.
RunEndedIffDead ==
  /\ flags.runEnded <=> player.hp = 0
  /\ \A res \in Outcomes(GS) :
       res.state.flags.runEnded <=> res.state.player.hp = 0

\* fallen after a first victory
FallenAfterVictory ==
  /\ flags.runEnded
  /\ player.hp = 0
  /\ player.xp >= 10
  /\ ~isInEncounter(GS)


\* 1 when the quest stands at one of the steps, 0 otherwise
AtStep(s, id, steps) ==
  LET quest == getQuestState(s, id)
  IN IF quest # NoQuest /\ quest.step \in steps THEN 1 ELSE 0

\* the grants of a run that state s shows as made: ritual 10, echoes report 3,
\* first entry to deep_wilds 2, fragment gift 2, communion 8
RepLedger(s) ==
  (IF s.flags.groveHealed THEN 10 ELSE 0)
  + 3 * AtStep(s, "echoes_at_the_lake", {"completed"})
  + 2 * AtStep(s, "hermits_glow", {"found_glow", "commune_with_glow", "completed"})
  + 2 * AtStep(s, "hermit_fragment", {"delivered"})
  + (IF s.flags.glowCommuneComplete THEN 8 ELSE 0)

\* C36: forest reputation never decreases under any operation and always
\* lies in 0..25: it is the sum of the grants made so far (ritual +10, echoes
\* report +3, first entry to deep_wilds +2, fragment gift +2, communion +8),
\* each made at most once in a run; so the uneasy and hostile tiers are
\* unreachable and the revered tier is reached only at exactly 25.
ReputationOnlyGrows ==
  /\ flags.reputation.forest \in 0..25
  /\ flags.reputation.forest = RepLedger(GS)
  /\ getForestRepTier(GS) \notin {"uneasy", "hostile"}
  /\ getForestRepTier(GS) = "revered" <=> flags.reputation.forest = 25
  /\ \A res \in Outcomes(GS) :
       /\ res.state.flags.reputation.forest >= flags.reputation.forest
       /\ res.state.flags.reputation.forest <= 25

\* every grant of the run has been made
ForestReveres ==
  /\ flags.reputation.forest = 25
  /\ getForestRepTier(GS) = "revered"
  /\ countItem(GS, "luminous_fragment") = 0


\* no trade of state s is used more often than its limit in s allows
UsageWithinLimit(s) ==
  \A t \in TradeIds : s.tradeUsage[t] <= getEffectiveTradeLimit(s, t)

Conserved(s) ==
  /\ countItem(s, "forest_herb")
       = s.gather.wildsHerbs - 3 * s.tradeUsage["herbs_for_tonic"]
         - (IF s.flags.groveHealed THEN 3 ELSE 0)
  /\ countItem(s, "raw_ore") = s.gather.mineOre - 2 * s.tradeUsage["ore_for_tonic"]

\* C38: resource conservation: in every reachable state (and in every state
\* an operation returns from one) held forest_herb = gather.wildsHerbs
\* - 3 * tradeUsage[herbs_for_tonic] - (3 if groveHealed else 0) and held
\* raw_ore = gather.mineOre - 2 * tradeUsage[ore_for_tonic]; hence
\* herbs_for_tonic is used at most once and ore_for_tonic at most twice in a
\* run, and the usage limit of a trade is never what stops it.
ResourcesConserved ==
  /\ Conserved(GS)
  /\ \A res \in Outcomes(GS) : Conserved(res.state)
  /\ tradeUsage["herbs_for_tonic"] <= 1
  /\ tradeUsage["ore_for_tonic"] <= 2
  /\ \A t \in TradeIds :
       /\ canUseTrade(GS, t)
       /\ canAffordTrade(GS, RANGER_TRADES[t]) /\ ~flags.runEnded
            /\ currentLocation = npcs["ranger_trader"].location
            => performTrade(GS, t).state.tradeUsage[t] = tradeUsage[t] + 1

\* the grove healed and the ore traded in one run
HealedAndTradedOut ==
  /\ flags.groveHealed
  /\ tradeUsage["ore_for_tonic"] = 1
  /\ countItem(GS, "forest_herb") = 0
  /\ countItem(GS, "raw_ore") = 0


\* the quest has left not_started
Started(s, id) ==
  LET quest == getQuestState(s, id)
  IN quest # NoQuest /\ quest.status # "not_started"

Completed(s, id) ==
  LET quest == getQuestState(s, id)
  IN quest # NoQuest /\ quest.status = "completed"

\* the order of the quest chain, as state s shows it
Ordered(s) ==
  /\ Started(s, "hermits_glow") => Completed(s, "echoes_at_the_lake")
  /\ Started(s, "echoes_at_the_lake") => Completed(s, "heal_the_grove")
  /\ s.flags.groveHealed <=> Completed(s, "heal_the_grove")
  /\ AtStep(s, "heal_the_grove", {"return_to_caretaker"}) = 0

\* C39: quest chain ordering: in every reachable state (and every state an
\* operation returns from one) hermits_glow has left not_started only if
\* echoes_at_the_lake is completed, echoes_at_the_lake has left not_started
\* only if heal_the_grove is completed, and flags.groveHealed is true if and
\* only if heal_the_grove is completed, so that heal_the_grove is never at
\* step return_to_caretaker.
ChainOrdered ==
  /\ Ordered(GS)
  /\ \A res \in Outcomes(GS) : Ordered(res.state)

\* the Glow found, the whole chain behind it
GlowFound ==
  /\ AtStep(GS, "hermits_glow", {"found_glow"}) = 1
  /\ Started(GS, "hermits_glow")
  /\ currentLocation = "deep_wilds"


\* the states the player can be in after n more calls of attack
RECURSIVE AfterAttacks(_, _)
AfterAttacks(S, n) ==
  IF n = 0 THEN S
  ELSE AfterAttacks({attack(s, r[1], r[2]).state : s \in S, r \in Draws}, n - 1)

\* C40: combat terminates: from any reachable state with an active
\* encounter, if the player keeps calling attack the encounter has ended
\* (creature defeated or player dead) after at most as many calls as the
\* creature's base hp, because every attack removes at least 1 creature hp.
CombatTerminates ==
  isInEncounter(GS) =>
    /\ \A s \in AfterAttacks({GS}, creatures[currentEncounter.creatureId].hp) :
         ~isInEncounter(s)
    /\ \A s \in AfterAttacks({GS}, currentEncounter.hp) : ~isInEncounter(s)
    /\ \A s \in AfterAttacks({GS}, 1) :
         isInEncounter(s) => s.currentEncounter.hp <= currentEncounter.hp - 1

\* a fresh creature faced by a player worn down by earlier fights
FreshFoeWornPlayer ==
  /\ isInEncounter(GS)
  /\ currentEncounter.hp = creatures[currentEncounter.creatureId].hp
  /\ player.xp >= 10
  /\ player.hp <= 6

============================================================================
